---- MODULE Spec2Model ----
(***************************************************************************)
(* AutoSentinels backend: the rule-based anomaly detector                  *)
(* (backend/app/services/anomaly_detector.py), the CrewAI pipeline         *)
(* orchestrator (backend/app/services/crew_orchestrator.py) and the        *)
(* /telematics/ingest handler that composes them (backend/app/main.py).    *)
(*                                                                         *)
(* Numbers.  Every float measurement is held in tenths of its unit, as an  *)
(* integer: 11.3 V is 113, 134.9 C is 1349, 2.5 bar is 25, 200.0 km is     *)
(* 2000.  engine_rpm is an int in the source and is held as is.            *)
(*                                                                         *)
(* Optional values.  Python's None is the empty sequence << >> and a       *)
(* present value v is the one-element sequence <<v>>.                      *)
(***************************************************************************)
EXTENDS Integers, Sequences, FiniteSets, TLC

None == << >>

Some(v) == <<v>>

(***************************************************************************)
(* Python helpers used by the code.                                        *)
(***************************************************************************)

\* str.strip(): the string without its leading and trailing whitespace.
\* Whitespace is every character of a string of this module that str.isspace()
\* accepts: space, \t, \n, \r, \f, then U+000B, U+001C, U+001D, U+001E, U+001F,
\* then U+0085, U+00A0, U+1680 (written as the characters themselves).
Whitespace ==
    {" ", "\t", "\n", "\r", "\f",
     "", "", "", "", "",
     "", " ", " "}

RECURSIVE lstrip(_)
lstrip(v) == IF v = "" THEN "" ELSE IF Head(v) \in Whitespace THEN lstrip(Tail(v)) ELSE v

RECURSIVE rstrip(_)
rstrip(v) ==
    IF v = "" THEN ""
    ELSE IF SubSeq(v, Len(v), Len(v)) \in Whitespace THEN rstrip(SubSeq(v, 1, Len(v) - 1)) ELSE v

strip(v) == rstrip(lstrip(v))

\* str.lower() compared with a literal of ASCII characters, as
\* crew_orchestrator.py:43-69 compares the lowered provider with three such
\* literals.  The characters that str.lower() turns into an ASCII letter are
\* the ASCII capitals and U+212A (KELVIN SIGN, to "k"), which no string of this
\* module can hold; every other character stays as it is or becomes a
\* character outside ASCII.
UpperCase == "ABCDEFGHIJKLMNOPQRSTUVWXYZ"

LowerCase == "abcdefghijklmnopqrstuvwxyz"

\* the characters c with c.lower() == x, for an ASCII character x
CharSpellings(x) ==
    IF \E i \in 1..Len(LowerCase) : SubSeq(LowerCase, i, i) = x
    THEN {x} \cup {SubSeq(UpperCase, i, i) : i \in {k \in 1..Len(LowerCase) : SubSeq(LowerCase, k, k) = x}}
    ELSE IF \E i \in 1..Len(UpperCase) : SubSeq(UpperCase, i, i) = x
    THEN {}
    ELSE {x}

\* the strings v with v.lower() == name, for a name of ASCII characters
RECURSIVE Spellings(_)
Spellings(name) ==
    IF name = "" THEN {""}
    ELSE {c \o rest : c \in CharSpellings(Head(name)), rest \in Spellings(Tail(name))}

\* dict.get(key): None when the key is absent
Get(d, k) == IF k \in DOMAIN d THEN Some(d[k]) ELSE None

\* variant: the default is dropped, an absent number reads as 0
OrNumMutZeroDefault(opt, default) == IF opt = None THEN 0 ELSE opt[1]

\* `x or default` on a number: None and 0 / 0.0 are falsy
OrNum(opt, default) == IF opt = None \/ opt[1] = 0 THEN default ELSE opt[1]

\* `x or default` on a string: None and "" are falsy
OrStr(opt, default) == IF opt = None \/ opt[1] = "" THEN default ELSE opt[1]

(***************************************************************************)
(* AnomalyResult (pydantic model, anomaly_detector.py:11-16)               *)
(***************************************************************************)
AnomalyResult(is_anomaly, component, severity, reason, predicted_failure_km) ==
    [is_anomaly |-> is_anomaly,
     component |-> component,
     severity |-> severity,
     reason |-> reason,
     predicted_failure_km |-> predicted_failure_km]

NoAnomaly == AnomalyResult(FALSE, None, None, None, None)

(***************************************************************************)
(* estimate_failure_km (anomaly_detector.py:58-67), in tenths of a km. The *)
(* code adds doubles; the sum of the double nearest a reading in tenths    *)
(* (up to 200000.0 km) and one of these whole increments is the double     *)
(* nearest the decimal sum, so the sum of the tenths stands for it.        *)
(***************************************************************************)
\* variant: the key of the "high" entry is misspelt, so "high" takes the default
incrementsMutHighUnmapped(severity) ==
    CASE severity = "critical" -> 2000
      [] severity = "medium" -> 50000
      [] severity = "low" -> 150000
      [] OTHER -> 80000

increments(severity) ==
    CASE severity = "critical" -> 2000
      [] severity = "high" -> 10000
      [] severity = "medium" -> 50000
      [] severity = "low" -> 150000
      [] OTHER -> 80000

estimate_failure_km(base_odometer, severity) == base_odometer + increments(severity)

(***************************************************************************)
(* The rule conditions and severities of AnomalyDetector.detect            *)
(***************************************************************************)

\* Rule 1 (line 73)
\* (the variants named ...Mut... are the rule with one plausible slip, used to
\* show that the properties below depend on the rule as written)
Rule1FiresMutNoPressure(coolant_temp, coolant_pressure) == coolant_temp >= 1200

Rule1Fires(coolant_temp, coolant_pressure) ==
    coolant_temp >= 1200 \/ (coolant_temp >= 1100 /\ coolant_pressure >= 25)

\* lines 74-79
Rule1SeverityMutStrict(coolant_temp) ==
    IF coolant_temp > 1350 THEN "critical"
    ELSE IF coolant_temp >= 1250 THEN "high"
    ELSE "medium"

Rule1Severity(coolant_temp) ==
    IF coolant_temp >= 1350 THEN "critical"
    ELSE IF coolant_temp >= 1250 THEN "high"
    ELSE "medium"

\* lines 81-92: the parts of the reason string; .1f formatting is exact in tenths
Rule1Reason(coolant_temp, coolant_pressure) ==
    <<"Coolant temperature is high at", coolant_temp>>
    \o (IF coolant_pressure > 0
        THEN <<"with coolant pressure", coolant_pressure>> ELSE << >>)
    \o <<"indicating poor coolant circulation or a failing coolant pump.">>

\* Rule 2 (line 106)
Rule2Fires(battery_voltage) == battery_voltage <= 113

\* lines 107-110
Rule2Severity(battery_voltage) ==
    IF battery_voltage <= 105 THEN "high" ELSE "medium"

\* lines 112-115
Rule2Reason(battery_voltage) ==
    <<"Battery voltage is low at", battery_voltage,
      "which suggests a charging system or alternator problem.">>

\* Rule 3 (line 128)
Rule3Fires(vibration, rpm) == vibration >= 800 /\ rpm >= 2500

\* line 130
Rule3Severity(vibration) == IF vibration < 950 THEN "medium" ELSE "high"

\* lines 132-135
Rule3Reason(vibration, rpm) ==
    <<"Vibration level is high at", vibration, "while engine RPM is", rpm,
      "likely an engine misfire under load.">>

\* Rule 4 (line 148)
Rule4FiresMutNoRpm(vibration, rpm) == vibration >= 600

Rule4Fires(vibration, rpm) == vibration >= 600 /\ rpm < 2500

\* line 149
Rule4SeverityMutMedium == "medium"

Rule4Severity == "low"

\* lines 151-154
Rule4Reason(vibration, rpm) ==
    <<"Vibration level is elevated at", vibration, "with moderate RPM", rpm,
      "which may indicate a sensor issue or minor imbalance.">>

(***************************************************************************)
(* AnomalyDetector.detect (anomaly_detector.py:35-168).  The payload is a  *)
(* dict (a function from field names): a TelemetryPayload is converted by  *)
(* .dict(), which yields the dict of its fields.                           *)
(***************************************************************************)
ToDict(payload) == [k \in DOMAIN payload |-> payload[k]]

\* the answer of a rule that fired (lines 94-102, 117-125, 137-145, 156-164)
RuleResult(component, severity, reason, odometer) ==
    AnomalyResult(TRUE, Some(component), Some(severity), Some(reason),
                  Some(estimate_failure_km(odometer, severity)))

detect(payload) ==
    LET p == ToDict(payload)
        \* 2) extract fields with safe defaults (lines 50-55)
        coolant_temp == OrNum(Get(p, "coolant_temp_c"), 0)
        coolant_pressure == OrNum(Get(p, "coolant_pressure_bar"), 0)
        battery_voltage == OrNum(Get(p, "battery_voltage"), 125)
        rpm == OrNum(Get(p, "engine_rpm"), 0)
        vibration == OrNum(Get(p, "vibration_level"), 0)
        odometer == OrNum(Get(p, "odometer_km"), 0)
    IN  IF Rule1Fires(coolant_temp, coolant_pressure)
        THEN RuleResult("coolant_pump", Rule1Severity(coolant_temp),
                        Rule1Reason(coolant_temp, coolant_pressure), odometer)
        ELSE IF Rule2Fires(battery_voltage)
        THEN RuleResult("alternator", Rule2Severity(battery_voltage),
                        Rule2Reason(battery_voltage), odometer)
        ELSE IF Rule3Fires(vibration, rpm)
        THEN RuleResult("engine_misfire", Rule3Severity(vibration),
                        Rule3Reason(vibration, rpm), odometer)
        ELSE IF Rule4Fires(vibration, rpm)
        THEN RuleResult("sensor_failure", Rule4Severity,
                        Rule4Reason(vibration, rpm), odometer)
        ELSE NoAnomaly

(***************************************************************************)
(* TelemetryPayload (models/telemetry.py:6-24): a validated sample.        *)
(* Bounds, in tenths: coolant_temp_c [-400, 2000], coolant_pressure_bar    *)
(* [0, 50], engine_rpm [0, 9000], vibration_level [0, 1000],               *)
(* battery_voltage [0, 240], odometer_km >= 0, and the optional            *)
(* ambient_temp_c, None unless given, [-500, 700].  The vin must not be    *)
(* blank.                                                                  *)
(***************************************************************************)
TelemetryPayload(vin, timestamp, coolant_temp_c, coolant_pressure_bar, engine_rpm, vibration_level, battery_voltage, odometer_km) ==
    [vin |-> vin,
     timestamp |-> timestamp,
     coolant_temp_c |-> coolant_temp_c,
     coolant_pressure_bar |-> coolant_pressure_bar,
     engine_rpm |-> engine_rpm,
     vibration_level |-> vibration_level,
     battery_voltage |-> battery_voltage,
     odometer_km |-> odometer_km,
     ambient_temp_c |-> None]

\* the sample with the optional ambient temperature given
WithAmbient(s, ambient_temp_c) == [s EXCEPT !.ambient_temp_c = Some(ambient_temp_c)]

\* the field bounds (telemetry.py:8-16) and vin_not_empty (19-24)
InRange(s) ==
    /\ strip(s.vin) # ""
    /\ s.coolant_temp_c >= -400 /\ s.coolant_temp_c <= 2000
    /\ s.coolant_pressure_bar >= 0 /\ s.coolant_pressure_bar <= 50
    /\ s.engine_rpm >= 0 /\ s.engine_rpm <= 9000
    /\ s.vibration_level >= 0 /\ s.vibration_level <= 1000
    /\ s.battery_voltage >= 0 /\ s.battery_voltage <= 240
    /\ s.odometer_km >= 0
    /\ s.ambient_temp_c = None
        \/ (s.ambient_temp_c[1] >= -500 /\ s.ambient_temp_c[1] <= 700)

\* The samples the classifier is checked on: every combination of values on
\* both sides of each threshold, the ends of the ranges and the nominal values.
GridCoolantTemp == {-400, 0, 900, 1099, 1100, 1199, 1200, 1249, 1250, 1349, 1350, 1400}

GridCoolantPressure == {0, 24, 25}

GridBatteryVoltage == {0, 100, 105, 106, 113, 114, 130, 240}

GridVibration == {0, 100, 599, 600, 799, 800, 900, 949, 950}

GridRpm == {0, 1500, 2499, 2500, 3000}

GridOdometer == {0, 100000}

Grid ==
    {TelemetryPayload("VIN1", 1, t, cp, rpm, vib, bv, odo) :
        t \in GridCoolantTemp, cp \in GridCoolantPressure, rpm \in GridRpm,
        vib \in GridVibration, bv \in GridBatteryVoltage, odo \in GridOdometer}

(***************************************************************************)
(* Settings (config.py:6-31) and _build_llm (crew_orchestrator.py:38-82).  *)
(* Only what _build_llm reads is kept: the provider and which keys are set.*)
(***************************************************************************)
Settings(llm_provider, anthropic_api_key, openai_api_key, groq_api_key) ==
    [llm_provider |-> llm_provider,
     anthropic_api_key |-> anthropic_api_key,
     openai_api_key |-> openai_api_key,
     groq_api_key |-> groq_api_key]

\* the environments the backend is started in
SettingsChoices ==
    {Settings("Anthropic", Some("key"), None, None),
     Settings("anthropic", None, None, None),
     Settings("azure", None, None, None),
     Settings("openai", None, Some("openai-key"), None),
     Settings("groq", None, None, Some("groq-key"))}

\* the variables of os.environ that _build_llm assigns
EnvironNames == {"OPENAI_API_KEY", "GROQ_API_KEY"}

\* the provider names that select each branch of _build_llm: the strings p
\* with p.lower() == "anthropic", "openai", "groq" (crew_orchestrator.py:45, 56, 69)
AnthropicNames == Spellings("anthropic")

OpenaiNames == Spellings("openai")

GroqNames == Spellings("groq")

\* the branch of _build_llm that the provider name selects
\* (crew_orchestrator.py:43, 45, 56, 69)
ProviderBranch(s) ==
    LET name == OrStr(Some(s.llm_provider), "anthropic")
    IN  IF name \in AnthropicNames THEN "anthropic"
        ELSE IF name \in OpenaiNames THEN "openai"
        ELSE IF name \in GroqNames THEN "groq"
        ELSE "unsupported"

\* _build_llm (crew_orchestrator.py:38-82) called when os.environ is env:
\* whether it raises RuntimeError, the variables of os.environ it assigns
\* (lines 59 and 72, after the key is found set) and os.environ afterwards
BuildLlm(s, env) ==
    LET branch == ProviderBranch(s)
        key == CASE branch = "anthropic" -> s.anthropic_api_key
                 [] branch = "openai" -> s.openai_api_key
                 [] branch = "groq" -> s.groq_api_key
                 [] OTHER -> None
        raises == key = None \/ key = Some("")
        written == IF raises THEN {}
                   ELSE CASE branch = "openai" -> {"OPENAI_API_KEY"}
                          [] branch = "groq" -> {"GROQ_API_KEY"}
                          [] OTHER -> {}
    IN  [raises |-> raises,
         written |-> written,
         environ |-> [k \in DOMAIN env |-> IF k \in written THEN key ELSE env[k]]]

(***************************************************************************)
(* CrewOrchestrator.run_pipeline, first part: the context (lines 278-291)  *)
(***************************************************************************)
\* datetime.isoformat()
isoformat(timestamp) == <<"iso8601", timestamp>>

BuildContext(payload, anomaly) ==
    [vin |-> payload.vin,
     timestamp |-> isoformat(payload.timestamp),
     coolant_temp_c |-> payload.coolant_temp_c,
     coolant_pressure_bar |-> payload.coolant_pressure_bar,
     engine_rpm |-> payload.engine_rpm,
     vibration_level |-> payload.vibration_level,
     battery_voltage |-> payload.battery_voltage,
     odometer_km |-> payload.odometer_km,
     anomaly_reason |-> anomaly.reason,
     predicted_failure_km |-> anomaly.predicted_failure_km,
     component |-> anomaly.component,
     severity |-> anomaly.severity]

(***************************************************************************)
(* CrewOrchestrator._build_tasks (lines 173-261): five tasks in the fixed  *)
(* order, each description a fixed template followed by str(context).      *)
(***************************************************************************)
StageNames == <<"summary", "diagnosis", "customer_message", "booking_instruction", "oem_insight">>

StageAgents == <<"data_agent", "diagnosis_agent", "customer_agent", "scheduling_agent", "insight_agent">>

NumStages == Len(StageNames)

\* str(context)
context_str(context) == <<"str", context>>

Task(k, context) ==
    [description |-> <<StageNames[k], "Context:", context_str(context)>>,
     agent |-> StageAgents[k]]

BuildTasks(context) == [k \in 1..NumStages |-> Task(k, context)]

(***************************************************************************)
(* The FaultRecord built after the crew returns (lines 322-330)            *)
(***************************************************************************)
\* variant: the record always carries the fallback values
BuildFaultMutAlwaysFallback(id, now, payload, anomaly, context) ==
    [id |-> id,
     vin |-> payload.vin,
     detected_at |-> now,
     predicted_failure_km |-> 2000,
     component |-> "unknown",
     severity |-> "medium",
     raw_payload |-> context]

BuildFault(id, now, payload, anomaly, context) ==
    [id |-> id,
     vin |-> payload.vin,
     detected_at |-> now,
     predicted_failure_km |-> OrNum(anomaly.predicted_failure_km, 2000),
     component |-> OrStr(anomaly.component, "unknown"),
     severity |-> OrStr(anomaly.severity, "medium"),
     raw_payload |-> context]

\* app.utils.ids.generate_id: a fresh identifier, never returned before
generate_id(counter) == counter + 1

\* str(crew_result): CrewAI's result prints as the raw output of the final task
StrCrewResult(task_outputs) == task_outputs[Len(task_outputs)]

\* the dict returned by run_pipeline (lines 338-342)
\* variant: the caller is given a newly generated id, not the record's
PipelineResultMutFreshId(context, task_outputs, fault_record) ==
    [context |-> context,
     crew_output |-> StrCrewResult(task_outputs),
     fault_id |-> generate_id(fault_record.id)]

PipelineResult(context, task_outputs, fault_record) ==
    [context |-> context,
     crew_output |-> StrCrewResult(task_outputs),
     fault_id |-> fault_record.id]

(***************************************************************************)
(* SQLiteFaultRepository.save_fault (sqlite_repo.py:42-54): one INSERT and *)
(* a commit; `id` is the primary key (sqlite_repo.py:20).                  *)
(***************************************************************************)
IdTaken(table, id) == \E i \in 1..Len(table) : table[i].id = id

\* variant: session.merge on the vehicle: a record of the same vin is replaced
save_faultMutReplacesVin(table, fault_record) ==
    IF \E i \in 1..Len(table) : table[i].vin = fault_record.vin
    THEN [i \in 1..Len(table) |->
            IF table[i].vin = fault_record.vin THEN fault_record ELSE table[i]]
    ELSE Append(table, fault_record)

save_fault(table, fault_record) == Append(table, fault_record)

(***************************************************************************)
(* The responses of ingest_telemetry (main.py:75-97)                       *)
(***************************************************************************)
NoAnomalyResponse ==
    [status_code |-> 200,
     body |-> [status |-> "ok", anomaly |-> FALSE, message |-> "No anomaly detected."]]

AnomalyResponse(res) ==
    [status_code |-> 200,
     body |-> [status |-> "anomaly_detected", anomaly |-> TRUE, fault_id |-> res.fault_id,
               summary |-> res.context, crew_output |-> res.crew_output]]

\* HTTPException(500) raised at main.py:86-89
PipelineFailureResponse ==
    [status_code |-> 500,
     body |-> [detail |-> "Internal processing error; please try again later."]]

\* get_orchestrator raised (main.py:40-43): the RuntimeError is handled by
\* no exception handler and the server answers 500 with a plain-text body
DependencyFailureResponse ==
    [status_code |-> 500, body |-> "Internal Server Error"]

(***************************************************************************)
(* Bounds and inputs of the request model                                  *)
(***************************************************************************)
\* concurrent requests to /telematics/ingest
NumRuns == 2

Runs == 1..NumRuns

\* validated samples sent to /telematics/ingest
PipelineSamples ==
    {TelemetryPayload("VIN1", 1, 1400, 30, 3000, 900, 100, 564),
     TelemetryPayload("VIN2", 2, 900, 10, 1500, 100, 113, 0),
     TelemetryPayload("VIN2", 3, 900, 10, 1500, 100, 130, 100000),
     TelemetryPayload("VIN1", 4, 900, 10, 1500, 100, 0, 100000)}

\* what the text-generation capability may return at stage k
StageTexts(k) ==
    IF k = 4 THEN {"{\"preferred_date\": ...}", "Sure, I can book that."}
    ELSE {StageNames[k] \o " text"}

VARIABLES
    settings,      \* the process's Settings
    environ,       \* the process's os.environ, on the variables _build_llm assigns
    environ_writes, \* per request: assignments to os.environ it has made
    pc,            \* per request: where its handler is
    payload,       \* per request: the validated TelemetryPayload
    anomaly,       \* per request: the AnomalyResult of detect
    context,       \* per run: run_pipeline's context dict
    outputs,       \* per run: the outputs of the stages that returned
    fault,         \* per run: the FaultRecord built
    save_calls,    \* per run: number of calls of fault_repo.save_fault
    save_raised,   \* per run: whether save_fault raised
    result,        \* per run: what run_pipeline returned
    response,      \* per request: the HTTP response
    rows,          \* the faults table
    id_counter,    \* identifiers generated so far
    clock,         \* the wall clock read by datetime.utcnow()
    probe,         \* classifier check: the sample given to detect
    verdict,       \* classifier check: what detect returned
    calls,         \* classifier check: the calls of detect so far, with their results
    held,          \* classifier check: the payload objects the caller passes to detect
    listing        \* store check: what the last list_* call returned

vars == <<settings, environ, environ_writes, pc, payload, anomaly, context, outputs, fault, save_calls,
          save_raised, result, response, rows, id_counter, clock, probe, verdict, calls, held, listing>>

requestVars == <<settings, environ, environ_writes, pc, payload, anomaly, context, outputs, fault, save_calls,
                 save_raised, result, response, rows, id_counter, clock>>

StagePc == <<"Stage1", "Stage2", "Stage3", "Stage4", "Stage5">>

StageOf(p) == CHOOSE k \in 1..NumStages : StagePc[k] = p

IsStage(p) == \E k \in 1..NumStages : StagePc[k] = p

\* the process after start-up: the settings are read once, from the .env file
\* (config.py:23-26), which leaves os.environ without the providers' keys
InitRequests ==
    /\ settings \in SettingsChoices
    /\ environ = [k \in EnvironNames |-> None]
    /\ environ_writes = [r \in Runs |-> 0]
    /\ pc = [r \in Runs |-> "Idle"]
    /\ payload = [r \in Runs |-> None]
    /\ anomaly = [r \in Runs |-> None]
    /\ context = [r \in Runs |-> None]
    /\ outputs = [r \in Runs |-> << >>]
    /\ fault = [r \in Runs |-> None]
    /\ save_calls = [r \in Runs |-> 0]
    /\ save_raised = [r \in Runs |-> FALSE]
    /\ result = [r \in Runs |-> None]
    /\ response = [r \in Runs |-> None]
    /\ rows = << >>
    /\ id_counter = 0
    /\ clock = 0

Init ==
    /\ InitRequests
    /\ probe = None
    /\ verdict = None
    /\ calls = << >>
    /\ held = << >>
    /\ listing = None

(***************************************************************************)
(* POST /telematics/ingest (main.py:58-97)                                 *)
(***************************************************************************)

\* The dependency get_orchestrator builds a CrewOrchestrator, whose __init__
\* calls _build_llm (main.py:40-43, crew_orchestrator.py:96-99): when that
\* raises, the handler body never runs. It raises before it assigns
\* os.environ; when it returns, the request has assigned the provider's
\* variable of os.environ (crew_orchestrator.py:59, 72), which the whole
\* process shares.
IngestDependencyFails(r, sample) ==
    /\ pc[r] = "Idle"
    /\ BuildLlm(settings, environ).raises
    /\ payload' = [payload EXCEPT ![r] = Some(sample)]
    /\ response' = [response EXCEPT ![r] = Some(DependencyFailureResponse)]
    /\ pc' = [pc EXCEPT ![r] = "Rejected"]
    /\ UNCHANGED <<settings, environ, environ_writes, anomaly, context, outputs, fault, save_calls,
                   save_raised, result, rows, id_counter, clock, probe, verdict, calls, held, listing>>

\* variant: the early return is missing and run_pipeline is entered
IngestNoAnomalyMutRunsPipeline(r, sample) ==
    /\ pc[r] = "Idle"
    /\ ~BuildLlm(settings, environ).raises
    /\ environ' = BuildLlm(settings, environ).environ
    /\ environ_writes' = [environ_writes EXCEPT ![r] = @ + Cardinality(BuildLlm(settings, environ).written)]
    /\ ~detect(sample).is_anomaly
    /\ payload' = [payload EXCEPT ![r] = Some(sample)]
    /\ anomaly' = [anomaly EXCEPT ![r] = Some(detect(sample))]
    /\ context' = [context EXCEPT ![r] = Some(BuildContext(sample, detect(sample)))]
    /\ pc' = [pc EXCEPT ![r] = "Built"]
    /\ UNCHANGED <<settings, outputs, fault, save_calls, save_raised, result, response,
                   rows, id_counter, clock, probe, verdict, calls, held, listing>>

\* detect says no anomaly: the handler answers at once (main.py:73-80)
IngestNoAnomaly(r, sample) ==
    /\ pc[r] = "Idle"
    /\ ~BuildLlm(settings, environ).raises
    /\ environ' = BuildLlm(settings, environ).environ
    /\ environ_writes' = [environ_writes EXCEPT ![r] = @ + Cardinality(BuildLlm(settings, environ).written)]
    /\ ~detect(sample).is_anomaly
    /\ payload' = [payload EXCEPT ![r] = Some(sample)]
    /\ anomaly' = [anomaly EXCEPT ![r] = Some(detect(sample))]
    /\ response' = [response EXCEPT ![r] = Some(NoAnomalyResponse)]
    /\ pc' = [pc EXCEPT ![r] = "NoAnomaly"]
    /\ UNCHANGED <<settings, context, outputs, fault, save_calls, save_raised,
                   result, rows, id_counter, clock, probe, verdict, calls, held, listing>>

\* detect says anomaly: run_pipeline is entered and builds the context, the
\* tasks and the Crew (main.py:83, crew_orchestrator.py:278-312); the tasks
\* are BuildTasks of the context, which the run keeps
IngestAnomaly(r, sample) ==
    /\ pc[r] = "Idle"
    /\ ~BuildLlm(settings, environ).raises
    /\ environ' = BuildLlm(settings, environ).environ
    /\ environ_writes' = [environ_writes EXCEPT ![r] = @ + Cardinality(BuildLlm(settings, environ).written)]
    /\ detect(sample).is_anomaly
    /\ payload' = [payload EXCEPT ![r] = Some(sample)]
    /\ anomaly' = [anomaly EXCEPT ![r] = Some(detect(sample))]
    /\ context' = [context EXCEPT ![r] = Some(BuildContext(sample, detect(sample)))]
    /\ pc' = [pc EXCEPT ![r] = "Built"]
    /\ UNCHANGED <<settings, outputs, fault, save_calls, save_raised, result, response,
                   rows, id_counter, clock, probe, verdict, calls, held, listing>>

\* crew.kickoff starts in a worker thread (crew_orchestrator.py:316)
Kickoff(r) ==
    /\ pc[r] = "Built"
    /\ pc' = [pc EXCEPT ![r] = "Stage1"]
    /\ UNCHANGED <<settings, environ, environ_writes, payload, anomaly, context, outputs, fault, save_calls,
                   save_raised, result, response, rows, id_counter, clock, probe, verdict, calls, held, listing>>

\* variant: the stage after the one that returned is skipped
StageReturnsMutSkips(r, text) ==
    /\ IsStage(pc[r])
    /\ StageOf(pc[r]) < NumStages
    /\ text \in StageTexts(StageOf(pc[r]))
    /\ outputs' = [outputs EXCEPT ![r] = Append(@, text)]
    /\ pc' = [pc EXCEPT ![r] = StagePc[IF StageOf(pc[r]) + 2 <= NumStages
                                       THEN StageOf(pc[r]) + 2 ELSE NumStages]]
    /\ UNCHANGED <<settings, environ, environ_writes, payload, anomaly, context, fault, save_calls,
                   save_raised, result, response, rows, id_counter, clock, probe, verdict, calls, held, listing>>

\* variant: a stage rewrites the severity held in the shared context dict
StageReturnsMutWritesContext(r, text) ==
    /\ IsStage(pc[r])
    /\ StageOf(pc[r]) < NumStages
    /\ text \in StageTexts(StageOf(pc[r]))
    /\ outputs' = [outputs EXCEPT ![r] = Append(@, text)]
    /\ context' = [context EXCEPT ![r] = Some([@[1] EXCEPT !.severity = Some("low")])]
    /\ pc' = [pc EXCEPT ![r] = StagePc[StageOf(pc[r]) + 1]]
    /\ UNCHANGED <<settings, environ, environ_writes, payload, anomaly, fault, save_calls,
                   save_raised, result, response, rows, id_counter, clock, probe, verdict, calls, held, listing>>

\* a stage before the last returns its text; Process.sequential starts the next
StageReturns(r, text) ==
    /\ IsStage(pc[r])
    /\ StageOf(pc[r]) < NumStages
    /\ text \in StageTexts(StageOf(pc[r]))
    /\ outputs' = [outputs EXCEPT ![r] = Append(@, text)]
    /\ pc' = [pc EXCEPT ![r] = StagePc[StageOf(pc[r]) + 1]]
    /\ UNCHANGED <<settings, environ, environ_writes, payload, anomaly, context, fault, save_calls,
                   save_raised, result, response, rows, id_counter, clock, probe, verdict, calls, held, listing>>

\* the last stage returns its text and crew.kickoff returns in the worker
\* thread; run_pipeline stays suspended at
\* `await anyio.to_thread.run_sync(crew.kickoff)` (crew_orchestrator.py:316)
\* until the event loop resumes it, and other requests run in between
LastStageReturns(r, text) ==
    /\ IsStage(pc[r])
    /\ StageOf(pc[r]) = NumStages
    /\ text \in StageTexts(NumStages)
    /\ outputs' = [outputs EXCEPT ![r] = Append(@, text)]
    /\ pc' = [pc EXCEPT ![r] = "Resuming"]
    /\ UNCHANGED <<settings, environ, environ_writes, payload, anomaly, context, fault, save_calls,
                   save_raised, result, response, rows, id_counter, clock, probe, verdict, calls, held, listing>>

\* variant: the record is built and handed to save_fault while the last stage
\* is still running
KickoffResumesMutEarly(r, tick) ==
    /\ pc[r] \in {"Stage5", "Resuming"}
    /\ tick \in {0, 1}
    /\ clock' = clock + tick
    /\ id_counter' = generate_id(id_counter)
    /\ fault' = [fault EXCEPT ![r] =
                   Some(BuildFault(generate_id(id_counter), clock + tick, payload[r][1],
                                   anomaly[r][1], context[r][1]))]
    /\ save_calls' = [save_calls EXCEPT ![r] = @ + 1]
    /\ pc' = [pc EXCEPT ![r] = "Persisting"]
    /\ UNCHANGED <<settings, environ, environ_writes, payload, anomaly, context, outputs, save_raised,
                   result, response, rows, probe, verdict, calls, held, listing>>

\* the event loop resumes run_pipeline with kickoff's result: it builds the
\* FaultRecord and calls save_fault, which runs up to `await session.commit()`
\* (crew_orchestrator.py:322-333, sqlite_repo.py:39-54)
KickoffResumes(r, tick) ==
    /\ pc[r] = "Resuming"
    /\ tick \in {0, 1}
    /\ clock' = clock + tick
    /\ id_counter' = generate_id(id_counter)
    /\ fault' = [fault EXCEPT ![r] =
                   Some(BuildFault(generate_id(id_counter), clock + tick, payload[r][1],
                                   anomaly[r][1], context[r][1]))]
    /\ save_calls' = [save_calls EXCEPT ![r] = @ + 1]
    /\ pc' = [pc EXCEPT ![r] = "Persisting"]
    /\ UNCHANGED <<settings, environ, environ_writes, payload, anomaly, context, outputs, save_raised,
                   result, response, rows, probe, verdict, calls, held, listing>>

\* variant: the failure is answered with 500 but the fault record is still
\* built and handed to save_fault
StageRaisesMutStillSaves(r) ==
    /\ IsStage(pc[r])
    /\ response' = [response EXCEPT ![r] = Some(PipelineFailureResponse)]
    /\ id_counter' = generate_id(id_counter)
    /\ fault' = [fault EXCEPT ![r] =
                   Some(BuildFault(generate_id(id_counter), clock, payload[r][1],
                                   anomaly[r][1], context[r][1]))]
    /\ save_calls' = [save_calls EXCEPT ![r] = @ + 1]
    /\ rows' = save_fault(rows, BuildFault(generate_id(id_counter), clock, payload[r][1],
                                           anomaly[r][1], context[r][1]))
    /\ pc' = [pc EXCEPT ![r] = "Failed"]
    /\ UNCHANGED <<settings, environ, environ_writes, payload, anomaly, context, outputs, save_raised,
                   result, clock, probe, verdict, calls, held, listing>>

\* the text generation raises at some stage: kickoff raises, run_pipeline
\* re-raises, the handler answers 500 (crew_orchestrator.py:317-319, main.py:84-89)
StageRaises(r) ==
    /\ IsStage(pc[r])
    /\ response' = [response EXCEPT ![r] = Some(PipelineFailureResponse)]
    /\ pc' = [pc EXCEPT ![r] = "Failed"]
    /\ UNCHANGED <<settings, environ, environ_writes, payload, anomaly, context, outputs, fault, save_calls,
                   save_raised, result, rows, id_counter, clock, probe, verdict, calls, held, listing>>

\* `await session.commit()` completes (sqlite_repo.py:54): the row is in the
\* table, and other requests run before save_fault resumes
SaveCommits(r) ==
    /\ pc[r] = "Persisting"
    /\ ~IdTaken(rows, fault[r][1].id)
    /\ rows' = save_fault(rows, fault[r][1])
    /\ pc' = [pc EXCEPT ![r] = "Saved"]
    /\ UNCHANGED <<settings, environ, environ_writes, payload, anomaly, context, outputs, fault, save_calls,
                   save_raised, result, response, id_counter, clock, probe, verdict,
                   calls, held, listing>>

\* save_fault resumes after the commit and returns, run_pipeline returns its
\* dict and the handler answers (crew_orchestrator.py:333-342, main.py:91-97);
\* nothing awaits between these
SaveReturns(r) ==
    /\ pc[r] = "Saved"
    /\ result' = [result EXCEPT ![r] =
                    Some(PipelineResult(context[r][1], outputs[r], fault[r][1]))]
    /\ response' = [response EXCEPT ![r] =
                      Some(AnomalyResponse(PipelineResult(context[r][1], outputs[r], fault[r][1])))]
    /\ pc' = [pc EXCEPT ![r] = "Done"]
    /\ UNCHANGED <<settings, environ, environ_writes, payload, anomaly, context, outputs, fault, save_calls,
                   save_raised, rows, id_counter, clock, probe, verdict, calls, held, listing>>

\* variant: the exception of save_fault is not caught and reaches the handler
SaveRaisesMutPropagates(r) ==
    /\ pc[r] = "Persisting"
    /\ save_raised' = [save_raised EXCEPT ![r] = TRUE]
    /\ response' = [response EXCEPT ![r] = Some(PipelineFailureResponse)]
    /\ pc' = [pc EXCEPT ![r] = "Failed"]
    /\ UNCHANGED <<settings, environ, environ_writes, payload, anomaly, context, outputs, fault, save_calls,
                   result, rows, id_counter, clock, probe, verdict, calls, held, listing>>

\* save_fault raises (database error): the exception is logged and dropped,
\* run_pipeline returns all the same (crew_orchestrator.py:332-342)
SaveRaises(r) ==
    /\ pc[r] = "Persisting"
    /\ save_raised' = [save_raised EXCEPT ![r] = TRUE]
    /\ result' = [result EXCEPT ![r] =
                    Some(PipelineResult(context[r][1], outputs[r], fault[r][1]))]
    /\ response' = [response EXCEPT ![r] =
                      Some(AnomalyResponse(PipelineResult(context[r][1], outputs[r], fault[r][1])))]
    /\ pc' = [pc EXCEPT ![r] = "Done"]
    /\ UNCHANGED <<settings, environ, environ_writes, payload, anomaly, context, outputs, fault, save_calls,
                   rows, id_counter, clock, probe, verdict, calls, held, listing>>

\* POST /oem_chat (main.py:152-277) at `llm = _build_llm()` (line 259): the
\* handler has read the faults table and next asks the LLM; of the state kept
\* here it writes os.environ, as _build_llm does, and nothing when that raises
OemChatBuildsLlm ==
    /\ environ' = BuildLlm(settings, environ).environ
    /\ UNCHANGED <<settings, environ_writes, pc, payload, anomaly, context, outputs, fault, save_calls,
                   save_raised, result, response, rows, id_counter, clock, probe, verdict, calls, held, listing>>

\* POST /chat (main.py:281-393) at `llm = _build_llm()` (line 363), likewise
ChatBuildsLlm ==
    /\ environ' = BuildLlm(settings, environ).environ
    /\ UNCHANGED <<settings, environ_writes, pc, payload, anomaly, context, outputs, fault, save_calls,
                   save_raised, result, response, rows, id_counter, clock, probe, verdict, calls, held, listing>>

Next ==
    \/ \E r \in Runs, sample \in PipelineSamples : IngestDependencyFails(r, sample)
    \/ \E r \in Runs, sample \in PipelineSamples : IngestNoAnomaly(r, sample)
    \/ \E r \in Runs, sample \in PipelineSamples : IngestAnomaly(r, sample)
    \/ \E r \in Runs : Kickoff(r)
    \/ \E r \in Runs, text \in UNION {StageTexts(k) : k \in 1..NumStages} : StageReturns(r, text)
    \/ \E r \in Runs, text \in StageTexts(NumStages) : LastStageReturns(r, text)
    \/ \E r \in Runs, tick \in {0, 1} : KickoffResumes(r, tick)
    \/ \E r \in Runs : StageRaises(r)
    \/ \E r \in Runs : SaveCommits(r)
    \/ \E r \in Runs : SaveReturns(r)
    \/ \E r \in Runs : SaveRaises(r)
    \/ OemChatBuildsLlm
    \/ ChatBuildsLlm

Spec == Init /\ [][Next]_vars

(***************************************************************************)
(* The classifier on its own: detect applied to every sample of the grid   *)
(***************************************************************************)
InitClassify ==
    /\ InitRequests
    /\ probe \in {Some(s) : s \in Grid}
    /\ verdict = None
    /\ calls = << >>
    /\ held = << >>
    /\ listing = None

Classify ==
    /\ probe # None
    /\ verdict = None
    /\ verdict' = Some(detect(probe[1]))
    /\ UNCHANGED <<probe, calls, held, listing, requestVars>>

NextClassify == Classify

SpecClassify == InitClassify /\ [][NextClassify]_vars

(***************************************************************************)
(* The classifier's rules as the specification states them, on the         *)
(* sample's own field values (tenths).                                     *)
(***************************************************************************)
CoolantCondition(s) ==
    s.coolant_temp_c >= 1200 \/ (s.coolant_temp_c >= 1100 /\ s.coolant_pressure_bar >= 25)

AlternatorCondition(s) == s.battery_voltage <= 113

MisfireCondition(s) == s.vibration_level >= 800 /\ s.engine_rpm >= 2500

SensorCondition(s) == s.vibration_level >= 600 /\ s.engine_rpm < 2500

\* the component of the lowest-numbered rule whose condition holds, None if none
FirstMatchingComponent(s) ==
    IF CoolantCondition(s) THEN Some("coolant_pump")
    ELSE IF AlternatorCondition(s) THEN Some("alternator")
    ELSE IF MisfireCondition(s) THEN Some("engine_misfire")
    ELSE IF SensorCondition(s) THEN Some("sensor_failure")
    ELSE None

\* the severity the rule of that component assigns to the sample
SeverityOfRule(component, s) ==
    CASE component = "coolant_pump" ->
            IF s.coolant_temp_c >= 1350 THEN "critical"
            ELSE IF s.coolant_temp_c >= 1250 THEN "high" ELSE "medium"
      [] component = "alternator" ->
            IF s.battery_voltage <= 105 THEN "high" ELSE "medium"
      [] component = "engine_misfire" ->
            IF s.vibration_level >= 950 THEN "high" ELSE "medium"
      [] component = "sensor_failure" -> "low"

Classified == probe # None /\ verdict # None

\* nominal mid-range values of the fields a threshold case leaves alone
NominalElectrical(s) == s.battery_voltage = 130

NominalVibration(s) == s.vibration_level = 100 /\ s.engine_rpm = 1500

NominalCoolant(s) == s.coolant_temp_c = 900

Is(v, component, severity) ==
    v.is_anomaly /\ v.component = Some(component) /\ v.severity = Some(severity)

\* C5: for every in-range sample, detect returns the classification of the
\* lowest-numbered rule whose condition holds on the sample (component and
\* that rule's severity), and not-anomaly when no condition holds.
C5_FirstMatchingRuleWins ==
    Classified =>
        LET s == probe[1]
            v == verdict[1]
        IN  /\ v.component = FirstMatchingComponent(s)
            /\ v.is_anomaly = (FirstMatchingComponent(s) # None)
            /\ v.is_anomaly => v.severity = Some(SeverityOfRule(v.component[1], s))

\* C5, the example of the specification: 140 C, 10.0 V, vibration 90 at 3000 rpm
\* is coolant_pump / critical.
C5_PrecedenceExample ==
    (Classified /\ probe[1].coolant_temp_c = 1400 /\ probe[1].battery_voltage = 100
        /\ probe[1].vibration_level = 900 /\ probe[1].engine_rpm = 3000)
    => Is(verdict[1], "coolant_pump", "critical")

\* C6: on every in-range sample (battery_voltage anywhere in [0, 24]) on which
\* rule 1 does not fire, detect returns alternator iff battery_voltage <= 11.3,
\* with severity high when battery_voltage <= 10.5 and medium otherwise.
C6_AlternatorRule ==
    (Classified /\ ~CoolantCondition(probe[1])) =>
        LET s == probe[1]
            v == verdict[1]
        IN  /\ (v.component = Some("alternator")) <=> (s.battery_voltage <= 113)
            /\ s.battery_voltage <= 105 => Is(v, "alternator", "high")
            /\ (s.battery_voltage > 105 /\ s.battery_voltage <= 113)
                    => Is(v, "alternator", "medium")

\* C7: for every in-range sample, detect returns coolant_pump iff
\* coolant_temp_c >= 120 or (coolant_temp_c >= 110 and coolant_pressure_bar >= 2.5);
\* then severity is critical from 135, high in [125, 135), medium otherwise.
C7_CoolantRule ==
    Classified =>
        LET s == probe[1]
            v == verdict[1]
        IN  /\ (v.component = Some("coolant_pump")) <=> CoolantCondition(s)
            /\ v.component = Some("coolant_pump") =>
                /\ v.is_anomaly
                /\ v.severity = Some(IF s.coolant_temp_c >= 1350 THEN "critical"
                                     ELSE IF s.coolant_temp_c >= 1250 THEN "high"
                                     ELSE "medium")

\* C7's case: the rule fires through the pressure clause, below 120 C, at medium
C7_Witness ==
    /\ Classified
    /\ probe[1].coolant_temp_c >= 1100 /\ probe[1].coolant_temp_c < 1200
    /\ probe[1].coolant_pressure_bar >= 25
    /\ Is(verdict[1], "coolant_pump", "medium")

\* C8: at the thresholds, other fields nominal: coolant 120.0 -> coolant_pump /
\* medium, 134.9 -> high, 135.0 -> critical; battery 11.3 -> alternator / medium,
\* 11.4 -> not-anomaly, 10.5 -> alternator / high.
C8_Thresholds ==
    Classified =>
        LET s == probe[1]
            v == verdict[1]
        IN  /\ (NominalElectrical(s) /\ NominalVibration(s)) =>
                /\ s.coolant_temp_c = 1200 => Is(v, "coolant_pump", "medium")
                /\ s.coolant_temp_c = 1349 => Is(v, "coolant_pump", "high")
                /\ s.coolant_temp_c = 1350 => Is(v, "coolant_pump", "critical")
            /\ (NominalCoolant(s) /\ NominalVibration(s)) =>
                /\ s.battery_voltage = 113 => Is(v, "alternator", "medium")
                /\ s.battery_voltage = 114 => v = NoAnomaly
                /\ s.battery_voltage = 105 => Is(v, "alternator", "high")

\* C8's case: the sample at 134.9 C with nominal other fields has been classified
C8_Witness ==
    /\ Classified
    /\ probe[1].coolant_temp_c = 1349
    /\ NominalElectrical(probe[1]) /\ NominalVibration(probe[1])
    /\ Is(verdict[1], "coolant_pump", "high")

\* C9: on every in-range sample on which neither rule 1 nor rule 2 fires, detect
\* returns engine_misfire iff vibration_level >= 80 and engine_rpm >= 2500 (high
\* from 95, medium otherwise), sensor_failure / low iff vibration_level >= 60
\* and engine_rpm < 2500, and not-anomaly in every remaining case.
C9_VibrationRules ==
    (Classified /\ ~CoolantCondition(probe[1]) /\ ~AlternatorCondition(probe[1])) =>
        LET s == probe[1]
            v == verdict[1]
        IN  /\ (v.component = Some("engine_misfire")) <=> MisfireCondition(s)
            /\ MisfireCondition(s) =>
                 Is(v, "engine_misfire", IF s.vibration_level >= 950 THEN "high" ELSE "medium")
            /\ (v.component = Some("sensor_failure")) <=> SensorCondition(s)
            /\ SensorCondition(s) => Is(v, "sensor_failure", "low")
            /\ (~MisfireCondition(s) /\ ~SensorCondition(s)) => v = NoAnomaly

\* C9's case: vibration in [60, 80) at 2500 rpm or more is not an anomaly
C9_Witness ==
    /\ Classified
    /\ ~CoolantCondition(probe[1]) /\ ~AlternatorCondition(probe[1])
    /\ probe[1].vibration_level >= 600 /\ probe[1].vibration_level < 800
    /\ probe[1].engine_rpm >= 2500
    /\ verdict[1] = NoAnomaly

Components == {"coolant_pump", "alternator", "engine_misfire", "sensor_failure"}

Severities == {"low", "medium", "high", "critical"}

\* the rule that returns the component
ConditionOf(component, s) ==
    CASE component = "coolant_pump" -> CoolantCondition(s)
      [] component = "alternator" -> AlternatorCondition(s)
      [] component = "engine_misfire" -> MisfireCondition(s)
      [] component = "sensor_failure" -> SensorCondition(s)

\* C10: for every in-range sample detect returns one well-formed AnomalyResult:
\* either is_anomaly is false and the four other fields are absent, or it is
\* true and all four are present, component and severity in their
\* vocabularies; component and severity come from the same rule, whose
\* condition holds on the sample.
C10_WellFormed ==
    Classified =>
        LET s == probe[1]
            v == verdict[1]
        IN  /\ InRange(s)
            /\ v.is_anomaly \in BOOLEAN
            /\ ~v.is_anomaly =>
                 /\ v.component = None /\ v.severity = None
                 /\ v.reason = None /\ v.predicted_failure_km = None
            /\ v.is_anomaly =>
                 /\ v.component # None /\ v.severity # None
                 /\ v.reason # None /\ v.predicted_failure_km # None
                 /\ v.component[1] \in Components
                 /\ v.severity[1] \in Severities
                 /\ ConditionOf(v.component[1], s)
                 /\ v.severity[1] = SeverityOfRule(v.component[1], s)

\* C10's case: an anomalous and a well-formed verdict exist; this one is the
\* lowest severity, which only sensor_failure carries
C10_Witness ==
    /\ Classified
    /\ Is(verdict[1], "sensor_failure", "low")
    /\ verdict[1].reason # None /\ verdict[1].predicted_failure_km # None

(***************************************************************************)
(* Properties of the pipeline run and of the handler                       *)
(***************************************************************************)

\* the stage at which a failed run's text generation raised
FailedAtStage(r) == Len(outputs[r]) + 1

HasRowOf(r) == fault[r] # None /\ IdTaken(rows, fault[r][1].id)

\* C1: when the text generation raises at any stage, the run ends in failure:
\* the handler answers with the pipeline-failure response, run_pipeline
\* returns no result (no partial aggregate), no FaultRecord is built and
\* save_fault is not called for that run, so the table gains no row from it.
C1_GenerationFailureAborts ==
    \A r \in Runs :
        pc[r] = "Failed" =>
            /\ FailedAtStage(r) \in 1..NumStages
            /\ response[r] = Some(PipelineFailureResponse)
            /\ response[r][1].status_code = 500
            /\ result[r] = None
            /\ fault[r] = None
            /\ save_calls[r] = 0
            /\ ~save_raised[r]
            /\ Len(rows) <= Cardinality({q \in Runs : q # r /\ save_calls[q] > 0})

\* C1's case: a run failed at the last stage, after four stages had returned
C1_Witness ==
    \E r \in Runs :
        /\ pc[r] = "Failed"
        /\ FailedAtStage(r) = NumStages
        /\ response[r] = Some(PipelineFailureResponse)

\* C2: when save_fault raises after the five stages, run_pipeline still
\* returns {context, crew_output, fault_id}, with the values the run holds
\* (the same a committed save returns), and the handler answers
\* anomaly_detected with that fault id.
C2_SaveFailureIsNotFatal ==
    /\ \A r \in Runs :
        save_raised[r] =>
            /\ pc[r] = "Done"
            /\ Len(outputs[r]) = NumStages
            /\ result[r] # None
            /\ DOMAIN result[r][1] = {"context", "crew_output", "fault_id"}
            /\ result[r][1].context = context[r][1]
            /\ result[r][1].crew_output = outputs[r][NumStages]
            /\ result[r][1].fault_id = fault[r][1].id
            /\ response[r] # None
            /\ response[r][1].status_code = 200
            /\ response[r][1].body.status = "anomaly_detected"
            /\ response[r][1].body.anomaly = TRUE
            /\ response[r][1].body.fault_id = fault[r][1].id
            /\ response[r][1].body.summary = context[r][1]
            /\ response[r][1].body.crew_output = result[r][1].crew_output
    \* a run whose save raised and a run whose save committed answer alike
    /\ \A r, q \in Runs :
        (pc[r] = "Done" /\ pc[q] = "Done" /\ save_raised[r] /\ ~save_raised[q]) =>
            /\ DOMAIN result[r][1] = DOMAIN result[q][1]
            /\ DOMAIN response[r][1].body = DOMAIN response[q][1].body
            /\ (context[r] = context[q] /\ outputs[r] = outputs[q]) =>
                 /\ result[r][1].context = result[q][1].context
                 /\ result[r][1].crew_output = result[q][1].crew_output

\* C2's case: a run answered after its save raised, its record not in the
\* table, beside a run on the same sample whose save committed
C2_Witness ==
    \E r, q \in Runs :
        /\ pc[r] = "Done" /\ save_raised[r] /\ ~HasRowOf(r)
        /\ pc[q] = "Done" /\ ~save_raised[q] /\ HasRowOf(q)
        /\ context[r] = context[q]
        /\ response[r][1].body.fault_id = fault[r][1].id

\* the steps of one pipeline run, and the two ways the handler answers without one
PipelineTransitions ==
    {<<"Built", "Stage1">>, <<"Stage1", "Stage2">>, <<"Stage2", "Stage3">>,
     <<"Stage3", "Stage4">>, <<"Stage4", "Stage5">>, <<"Stage5", "Resuming">>,
     <<"Resuming", "Persisting">>,
     <<"Persisting", "Saved">>, <<"Saved", "Done">>, <<"Persisting", "Done">>,
     <<"Stage1", "Failed">>, <<"Stage2", "Failed">>, <<"Stage3", "Failed">>,
     <<"Stage4", "Failed">>, <<"Stage5", "Failed">>}

HandlerTransitions ==
    {<<"Idle", "Built">>, <<"Idle", "NoAnomaly">>, <<"Idle", "Rejected">>}

\* the number of stage outputs a run holds in each state: no stage skipped or repeated
OutputsAt(p) ==
    CASE p = "Stage1" -> 0 [] p = "Stage2" -> 1 [] p = "Stage3" -> 2
      [] p = "Stage4" -> 3 [] p = "Stage5" -> 4
      [] p \in {"Resuming", "Persisting", "Saved", "Done"} -> 5
      [] OTHER -> 0

\* C3: a run moves only along Built, Stage1, ..., Stage5, Persisting, Done,
\* one state at a time and never back, each stage adding exactly one output;
\* Failed is entered only from a stage state, never from Persisting (from
\* which the only way is to Done), and nothing leaves Done or Failed.  Resuming
\* is the end of Stage5, when kickoff has returned in its thread and
\* run_pipeline is not yet resumed; Saved is the part of Persisting after the
\* commit, before save_fault has returned.
C3_PipelinePath ==
    /\ [](\A r \in Runs : pc[r] # "Failed" => Len(outputs[r]) = OutputsAt(pc[r]))
    /\ [][\A r \in Runs :
            pc'[r] # pc[r] => <<pc[r], pc'[r]>> \in PipelineTransitions \cup HandlerTransitions]_vars

\* C3's case: one run reached Done through a save that raised, another reached
\* Failed from the third stage
C3_Witness ==
    \E r, q \in Runs :
        /\ pc[r] = "Done" /\ save_raised[r] /\ Len(outputs[r]) = NumStages
        /\ pc[q] = "Failed" /\ FailedAtStage(q) = 3

PipelineStates ==
    {"Built", "Stage1", "Stage2", "Stage3", "Stage4", "Stage5", "Resuming", "Persisting", "Saved",
     "Done",
     "Failed"}

\* C4: run_pipeline is entered iff detect returned is_anomaly = true.  For a
\* sample classified not-anomaly no context or task is built, no stage runs,
\* no FaultRecord is built or saved, and the answer carries neither pipeline
\* output nor fault id.
C4_PipelineIffAnomaly ==
    \A r \in Runs :
        /\ anomaly[r] # None => anomaly[r][1] = detect(payload[r][1])
        /\ (anomaly[r] # None /\ anomaly[r][1].is_anomaly) <=> pc[r] \in PipelineStates
        /\ pc[r] \in PipelineStates <=> context[r] # None
        /\ (anomaly[r] # None /\ ~anomaly[r][1].is_anomaly) =>
            /\ pc[r] = "NoAnomaly"
            /\ context[r] = None /\ outputs[r] = << >>
            /\ fault[r] = None /\ save_calls[r] = 0 /\ result[r] = None
            /\ response[r] # None
            /\ response[r][1].status_code = 200
            /\ response[r][1].body.anomaly = FALSE
            /\ DOMAIN response[r][1].body = {"status", "anomaly", "message"}

\* C4's case: a not-anomalous sample was answered while another request's
\* pipeline ran to its end
C4_Witness ==
    \E r, q \in Runs :
        /\ pc[r] = "NoAnomaly" /\ ~anomaly[r][1].is_anomaly
        /\ response[r] = Some(NoAnomalyResponse)
        /\ pc[q] = "Done" /\ anomaly[q][1].is_anomaly

\* the increment the specification gives each severity, in tenths of a km
SeverityIncrement(severity) ==
    CASE severity = "critical" -> 2000
      [] severity = "high" -> 10000
      [] severity = "medium" -> 50000
      [] severity = "low" -> 150000

\* C11: for every sample classified as an anomaly, predicted_failure_km is
\* odometer_km plus 200 (critical), 1000 (high), 5000 (medium) or 15000 (low),
\* by the returned severity; the default 8000 is never the increment.
C11_PredictedFailureKm ==
    (Classified /\ verdict[1].is_anomaly) =>
        LET s == probe[1]
            v == verdict[1]
        IN  /\ v.severity[1] \in Severities
            /\ v.predicted_failure_km = Some(s.odometer_km + SeverityIncrement(v.severity[1]))
            /\ v.predicted_failure_km[1] - s.odometer_km # 80000

\* C11's case: odometer 10000 km, the coolant rule at severity high: 11000.0 km
C11_Witness ==
    /\ Classified
    /\ probe[1].odometer_km = 100000
    /\ Is(verdict[1], "coolant_pump", "high")
    /\ verdict[1].predicted_failure_km = Some(110000)

(***************************************************************************)
(* The classifier on dict payloads that lack some measurements             *)
(***************************************************************************)
MeasurementFields ==
    {"coolant_temp_c", "coolant_pressure_bar", "engine_rpm", "vibration_level",
     "battery_voltage", "odometer_km"}

\* the dict holding the measurements that are present (an absent one is None)
PartialPayload(coolant_temp_c, coolant_pressure_bar, engine_rpm, vibration_level, battery_voltage, odometer_km) ==
    LET given == [coolant_temp_c |-> coolant_temp_c,
                  coolant_pressure_bar |-> coolant_pressure_bar,
                  engine_rpm |-> engine_rpm,
                  vibration_level |-> vibration_level,
                  battery_voltage |-> battery_voltage,
                  odometer_km |-> odometer_km]
        present == {k \in MeasurementFields : given[k] # None}
    IN  [k \in present \cup {"vin"} |-> IF k = "vin" THEN "VIN1" ELSE given[k][1]]

PartialGrid ==
    {PartialPayload(t, cp, rpm, vib, bv, odo) :
        t \in {None, Some(900), Some(1100), Some(1400)},
        cp \in {None, Some(0), Some(25)},
        rpm \in {None, Some(1500), Some(3000)},
        vib \in {None, Some(700), Some(900)},
        bv \in {None, Some(0), Some(100), Some(125), Some(130)},
        odo \in {None, Some(100000)}}

InitPartial ==
    /\ InitRequests
    /\ probe \in {Some(d) : d \in PartialGrid}
    /\ verdict = None
    /\ calls = << >>
    /\ held = << >>
    /\ listing = None

SpecPartial == InitPartial /\ [][NextClassify]_vars

\* the payload with every absent measurement set to the default the
\* specification names: 12.5 V for battery_voltage, 0 for the others
WithDefaults(d) ==
    [k \in DOMAIN d \cup MeasurementFields |->
        IF k \in DOMAIN d THEN d[k]
        ELSE IF k = "battery_voltage" THEN 125 ELSE 0]

Absent(d) == MeasurementFields \ DOMAIN d

\* the measurement whose value a rule needs above (or below) a threshold
TriggerOf(component) ==
    CASE component = "coolant_pump" -> "coolant_temp_c"
      [] component = "alternator" -> "battery_voltage"
      [] component = "engine_misfire" -> "vibration_level"
      [] component = "sensor_failure" -> "vibration_level"

\* C12: on a dict payload that lacks measurements detect returns what it
\* returns on the payload with the absent ones set to 12.5 (battery_voltage)
\* and 0 (the others); a rule fires only on a measurement that is present, so
\* the payload with every measurement absent is not-anomaly.
C12_AbsentFieldsTakeDefaults ==
    Classified =>
        LET d == probe[1]
            v == verdict[1]
        IN  /\ v = detect(WithDefaults(d))
            /\ v.is_anomaly => TriggerOf(v.component[1]) \in DOMAIN d
            /\ Absent(d) = MeasurementFields => v = NoAnomaly
            /\ "battery_voltage" \in Absent(d) => v.component # Some("alternator")

\* C12's case: a payload without battery_voltage and engine_rpm whose
\* vibration is high has been classified, by the rule for moderate rpm
C12_Witness ==
    /\ Classified
    /\ {"battery_voltage", "engine_rpm"} \subseteq Absent(probe[1])
    /\ Is(verdict[1], "sensor_failure", "low")

\* C12's other case: every measurement absent
C12_AllAbsentReached ==
    Classified /\ Absent(probe[1]) = MeasurementFields /\ verdict[1] = NoAnomaly

HardFailure(r) == response[r] # None /\ response[r][1].status_code >= 500

\* C13: a validated sample is answered with a hard failure iff the text
\* generation raised at some stage of its pipeline run; a not-anomalous
\* sample, the classification and a raising save_fault never yield one.
C13_HardFailureOnlyOnGenerationFailure ==
    \A r \in Runs :
        /\ HardFailure(r) <=> pc[r] = "Failed"
        /\ (anomaly[r] # None /\ ~anomaly[r][1].is_anomaly) => ~HardFailure(r)
        /\ save_raised[r] => ~HardFailure(r)
        /\ (payload[r] # None /\ ~detect(payload[r][1]).is_anomaly) => ~HardFailure(r)

\* C13 where _build_llm succeeds: then the only hard failure is a generation failure
C13_WhenLlmIsBuilt == ~BuildLlm(settings, environ).raises => C13_HardFailureOnlyOnGenerationFailure

\* the stage outputs that a crew_output string carries: it is one stage's raw
\* text, so it carries that one
TextsIn(crew_output) == <<crew_output>>

\* C14: for every anomalous sample whose five stages all return, the result
\* handed to the caller carries the outputs of exactly five stages, in the
\* order summary, diagnosis, customer message, booking instruction, OEM
\* insight, and a non-empty fault id.
C14_FiveOutputsInOrder ==
    \A r \in Runs :
        pc[r] = "Done" =>
            /\ Len(outputs[r]) = NumStages
            /\ \A k \in 1..NumStages : outputs[r][k] \in StageTexts(k)
            /\ TextsIn(response[r][1].body.crew_output) = outputs[r]
            /\ response[r][1].body.fault_id >= 1

\* C14, what the result does carry: the output of the last stage only, with
\* the fault id of the record built
C14_LastOutputOnly ==
    \A r \in Runs :
        pc[r] = "Done" =>
            /\ Len(outputs[r]) = NumStages
            /\ \A k \in 1..NumStages : outputs[r][k] \in StageTexts(k)
            /\ TextsIn(response[r][1].body.crew_output) = <<outputs[r][NumStages]>>
            /\ response[r][1].body.fault_id = fault[r][1].id
            /\ response[r][1].body.fault_id >= 1

(***************************************************************************)
(* Repeated calls of detect, on samples in any order                       *)
(***************************************************************************)
\* calls of detect in one history
MaxCalls == 3

RepeatSamples ==
    <<TelemetryPayload("VIN1", 1, 1400, 30, 3000, 900, 100, 100000),
      TelemetryPayload("VIN1", 1, 900, 10, 1500, 100, 113, 0),
      TelemetryPayload("VIN1", 1, 900, 10, 3000, 950, 130, 2500),
      TelemetryPayload("VIN1", 1, 900, 10, 1500, 600, 130, 2500),
      TelemetryPayload("VIN1", 1, 900, 10, 1500, 100, 130, 100000)>>

\* the payload objects the caller holds and hands to detect by reference:
\* every sample once as a dict and once as a TelemetryPayload model
RepeatObjects ==
    [o \in 1..(2 * Len(RepeatSamples)) |->
        IF o <= Len(RepeatSamples)
        THEN [is_dict |-> TRUE, fields |-> RepeatSamples[o]]
        ELSE [is_dict |-> FALSE, fields |-> RepeatSamples[o - Len(RepeatSamples)]]]

InitRepeat ==
    /\ InitRequests
    /\ probe = None
    /\ verdict = None
    /\ calls = << >>
    /\ held = RepeatObjects
    /\ listing = None

\* variant: detect takes the measurements (anomaly_detector.py:50-55) with
\* payload.pop(...), so a dict
\* that was classified once no longer holds them
PayloadAfterDetectMutPops(object) ==
    IF object.is_dict
    THEN [object EXCEPT !.fields = [k \in DOMAIN object.fields \ MeasurementFields |-> object.fields[k]]]
    ELSE object

\* the caller's payload object after detect has returned
\* (anomaly_detector.py:37-55): a model is converted to a fresh dict by
\* payload.dict() and a dict is only read with payload.get(...), so the object
\* is as it was
PayloadAfterDetect(object) == object

\* one more call of detect (anomaly_detector.py:35-168) on an object the
\* caller holds: it has no attribute of the class or the module to read but
\* the logger, so its result comes from the object as the earlier calls left it
ClassifyCall(o) ==
    /\ Len(calls) < MaxCalls
    /\ probe' = Some(held[o].fields)
    /\ verdict' = Some(detect(held[o].fields))
    /\ calls' = Append(calls, [object |-> o, result |-> detect(held[o].fields)])
    /\ held' = [held EXCEPT ![o] = PayloadAfterDetect(@)]
    /\ UNCHANGED <<listing, requestVars>>

NextRepeat == \E o \in DOMAIN RepeatObjects : ClassifyCall(o)

SpecRepeat == InitRepeat /\ [][NextRepeat]_vars

\* C15: in any sequence of calls of detect, two calls on payloads with the
\* same field values (the same object twice, or a dict and a model) return the
\* same AnomalyResult, whatever was classified before or in between.
C15_SameSampleSameResult ==
    \A i, j \in 1..Len(calls) :
        RepeatObjects[calls[i].object].fields = RepeatObjects[calls[j].object].fields
            => calls[i].result = calls[j].result

\* C15's case: a dict with an anomalous sample classified, then a payload with
\* a different result, then the first dict again
C15_Witness ==
    /\ Len(calls) >= 3
    /\ calls[1].object = calls[3].object
    /\ RepeatObjects[calls[1].object].is_dict
    /\ calls[1].result.is_anomaly
    /\ calls[2].result # calls[1].result
    /\ calls[3].result = calls[1].result

\* everything a request's handler and its pipeline run hold
RunState(r) ==
    <<payload[r], anomaly[r], context[r], outputs[r], fault[r], save_calls[r],
      save_raised[r], result[r], response[r]>>

\* the payload fields the context copies unchanged
CopiedFields ==
    {"vin", "coolant_temp_c", "coolant_pressure_bar", "engine_rpm", "vibration_level",
     "battery_voltage", "odometer_km"}

\* what a run holds is what it computes from its own sample when run alone
OwnValues(r) ==
    /\ context[r] # None =>
        /\ payload[r] # None /\ anomaly[r] # None
        /\ \A k \in CopiedFields : context[r][1][k] = payload[r][1][k]
        /\ context[r][1].timestamp = isoformat(payload[r][1].timestamp)
        /\ context[r][1].component = anomaly[r][1].component
        /\ context[r][1].severity = anomaly[r][1].severity
        /\ context[r][1].anomaly_reason = anomaly[r][1].reason
        /\ context[r][1].predicted_failure_km = anomaly[r][1].predicted_failure_km
    /\ fault[r] # None =>
        /\ fault[r][1].vin = payload[r][1].vin
        /\ fault[r][1].raw_payload = context[r][1]
        /\ Some(fault[r][1].component) = anomaly[r][1].component
        /\ Some(fault[r][1].severity) = anomaly[r][1].severity
        /\ Some(fault[r][1].predicted_failure_km) = anomaly[r][1].predicted_failure_km
    /\ result[r] # None =>
        /\ result[r][1].context = context[r][1]
        /\ result[r][1].crew_output = outputs[r][Len(outputs[r])]
        /\ result[r][1].fault_id = fault[r][1].id

\* every row of the table is the record of a run that called save_fault
RowsComeFromRuns ==
    \A i \in 1..Len(rows) :
        \E r \in Runs : save_calls[r] > 0 /\ ~save_raised[r] /\ rows[i] = fault[r][1]

\* a step of one request changes nothing another request holds, and no two
\* requests step at once
RunsStepAlone ==
    /\ \A r \in Runs : pc'[r] = pc[r] => RunState(r)' = RunState(r)
    /\ Cardinality({r \in Runs : pc'[r] # pc[r]}) <= 1
    /\ settings' = settings

\* the requests that have assigned a variable of os.environ
EnvironWriters == {r \in Runs : environ_writes[r] > 0}

\* C16: in any interleaving of concurrent pipeline runs each run's context,
\* result and FaultRecord are those it computes from its own sample; a step
\* of one request changes nothing another request holds, and the faults
\* table is the only state of the program that more than one run writes.
C16_RunsAreIsolated ==
    /\ [](\A r \in Runs : OwnValues(r))
    /\ []RowsComeFromRuns
    /\ [][RunsStepAlone]_vars
    /\ [](Cardinality(EnvironWriters) <= 1)

\* C16 without its last part: each run's context, result and FaultRecord are
\* its own and no step changes what another request holds; os.environ is
\* written by every request, always with the key of the settings
C16_RunsAreIsolatedButEnviron ==
    /\ [](\A r \in Runs : OwnValues(r))
    /\ []RowsComeFromRuns
    /\ [][RunsStepAlone]_vars
    /\ [](\A k \in EnvironNames :
            \/ environ[k] = None
            \/ k = "OPENAI_API_KEY" /\ environ[k] = settings.openai_api_key
            \/ k = "GROQ_API_KEY" /\ environ[k] = settings.groq_api_key)

\* C16's case: two runs on different vehicles were in their stages at once
\* and both ended, each with its own context and record
C16_Witness ==
    \E r, q \in Runs :
        /\ r # q
        /\ pc[r] = "Done" /\ pc[q] = "Done"
        /\ payload[r][1].vin # payload[q][1].vin
        /\ HasRowOf(r) /\ HasRowOf(q)
        /\ fault[r][1].detected_at = fault[q][1].detected_at
        /\ result[r][1].context # result[q][1].context

\* two such runs that both assigned os.environ on their way
C16_EnvironWrittenByTwoRuns ==
    \E r, q \in Runs :
        /\ r # q
        /\ pc[r] = "Done" /\ pc[q] = "Done"
        /\ HasRowOf(r) /\ HasRowOf(q)
        /\ environ_writes[r] > 0 /\ environ_writes[q] > 0
        /\ environ # [k \in EnvironNames |-> None]

(***************************************************************************)
(* SQLiteFaultRepository on its own (sqlite_repo.py:39-85): saves of       *)
(* records as run_pipeline builds them, and the two list queries           *)
(***************************************************************************)
\* ids taken, and so saves attempted, in one history
MaxRows == 2

\* latest detected_at of a saved record; concurrent runs may save in an order
\* other than that of their detected_at, and two may read the same clock value
MaxTime == 1

\* largest limit asked of list_recent_faults; `limit` is an unvalidated int
\* of the query string (main.py:103-105), so it may be negative
MaxLimit == 2

Limits == -1..MaxLimit

Vins == {"VIN1", "VIN2", "VIN3"}

StoreSamples == {s \in PipelineSamples : detect(s).is_anomaly}

\* _to_model (sqlite_repo.py:76-85): the FaultRecord of a row, field by field
to_model(orm) ==
    [id |-> orm.id,
     vin |-> orm.vin,
     detected_at |-> orm.detected_at,
     predicted_failure_km |-> orm.predicted_failure_km,
     component |-> orm.component,
     severity |-> orm.severity,
     raw_payload |-> orm.raw_payload]

IndexOrders(n) == {p \in [1..n -> 1..n] : \A i, j \in 1..n : i # j => p[i] # p[j]}

NonIncreasing(records) ==
    \A i \in 1..Len(records) - 1 : records[i].detected_at >= records[i + 1].detected_at

\* ORDER BY detected_at DESC: every order of the rows that is non-increasing
\* in detected_at (SQL leaves the order of equal keys open)
OrderByDetectedAtDesc(selected) ==
    {o \in {[i \in 1..Len(selected) |-> selected[p[i]]] : p \in IndexOrders(Len(selected))} :
        NonIncreasing(o)}

\* WHERE vin = :vin
WhereVin(table, vin) == SelectSeq(table, LAMBDA row : row.vin = vin)

\* LIMIT :limit; SQLite reads a negative limit as no limit
LimitRows(ordered, limit) ==
    IF limit < 0 \/ limit >= Len(ordered) THEN ordered ELSE SubSeq(ordered, 1, limit)

ToModels(ordered) == [i \in 1..Len(ordered) |-> to_model(ordered[i])]

\* list_recent_faults (sqlite_repo.py:66-74): the answers the query may give
list_recent_faults(table, limit) ==
    {ToModels(LimitRows(o, limit)) : o \in OrderByDetectedAtDesc(table)}

\* list_faults_for_vin (sqlite_repo.py:56-64)
list_faults_for_vin(table, vin) ==
    {ToModels(o) : o \in OrderByDetectedAtDesc(WhereVin(table, vin))}

InitStore ==
    /\ InitRequests
    /\ settings = Settings("Anthropic", Some("key"), None, None)
    /\ probe = None
    /\ verdict = None
    /\ calls = << >>
    /\ held = << >>
    /\ listing = None

storeFrame == <<settings, environ, environ_writes, pc, payload, anomaly, context, outputs, save_calls,
                save_raised, result, response, clock, probe, verdict, calls, held>>

\* a pipeline run takes an id, builds its record and calls save_fault, which
\* awaits the commit (crew_orchestrator.py:322-333); fault[r] holds the
\* record while the save is in flight
StoreBuild(r, sample, now) ==
    /\ fault[r] = None
    /\ id_counter < MaxRows
    /\ id_counter' = generate_id(id_counter)
    /\ fault' = [fault EXCEPT ![r] =
                   Some(BuildFault(generate_id(id_counter), now, sample, detect(sample),
                                   BuildContext(sample, detect(sample))))]
    /\ UNCHANGED <<rows, listing, storeFrame>>

\* the commit of a save in flight completes (sqlite_repo.py:54)
StoreCommit(r) ==
    /\ fault[r] # None
    /\ ~IdTaken(rows, fault[r][1].id)
    /\ rows' = save_fault(rows, fault[r][1])
    /\ fault' = [fault EXCEPT ![r] = None]
    /\ UNCHANGED <<id_counter, listing, storeFrame>>

\* the save in flight raises; run_pipeline logs and drops the exception, and
\* the id it took is never stored (crew_orchestrator.py:334-336)
StoreRaises(r) ==
    /\ fault[r] # None
    /\ fault' = [fault EXCEPT ![r] = None]
    /\ UNCHANGED <<rows, id_counter, listing, storeFrame>>

\* GET /faults (main.py:102-114)
ListRecent(limit) ==
    /\ \E answer \in list_recent_faults(rows, limit) :
        listing' = Some([query |-> "recent", limit |-> limit, vin |-> "", table |-> rows,
                         returned |-> answer])
    /\ UNCHANGED <<rows, id_counter, fault, storeFrame>>

\* list_faults_for_vin, as the vehicle endpoints call it
ListForVin(vin) ==
    /\ \E answer \in list_faults_for_vin(rows, vin) :
        listing' = Some([query |-> "vin", limit |-> 0, vin |-> vin, table |-> rows,
                         returned |-> answer])
    /\ UNCHANGED <<rows, id_counter, fault, storeFrame>>

NextStore ==
    \/ \E r \in Runs, sample \in StoreSamples, now \in 0..MaxTime : StoreBuild(r, sample, now)
    \/ \E r \in Runs : StoreCommit(r)
    \/ \E r \in Runs : StoreRaises(r)
    \/ \E limit \in Limits : ListRecent(limit)
    \/ \E vin \in Vins : ListForVin(vin)

SpecStore == InitStore /\ [][NextStore]_vars

\* C17: across any sequence of saves and list queries the table only grows:
\* every stored record stays where it is with every field unchanged, and no
\* operation removes or rewrites one.
C17_AppendOnly ==
    [][/\ Len(rows') >= Len(rows)
       /\ \A i \in 1..Len(rows) : rows'[i] = rows[i]]_vars

\* C17's case: two records of one vehicle are stored, and a list query has run
\* on the table that holds them
C17_Witness ==
    /\ Len(rows) >= 2
    /\ rows[1].vin = rows[2].vin
    /\ rows[1].id # rows[2].id
    /\ listing # None
    /\ listing[1].table = rows
    /\ Len(listing[1].returned) >= 2

\* two saves in flight commit in the order opposite to that of their ids
C17_OutOfOrderReached ==
    Len(rows) = 2 /\ rows[1].id = 2 /\ rows[2].id = 1

\* a save raised: its id was taken and is never stored
C17_DroppedIdReached ==
    /\ id_counter = 2 /\ Len(rows) = 1 /\ rows[1].id = 2
    /\ \A r \in Runs : fault[r] = None


\* the records a table held when a query read it
StoredRecords(table) == {to_model(table[i]) : i \in 1..Len(table)}

RecordsOf(returned) == {returned[i] : i \in 1..Len(returned)}

\* the answer lists stored records, each at most once
ListsStoredRecords(returned, table) ==
    /\ RecordsOf(returned) \subseteq StoredRecords(table)
    /\ \A i, j \in 1..Len(returned) : i # j => returned[i].id # returned[j].id

\* no stored record left out of the answer is later than one in it
HoldsTheLatest(returned, table) ==
    \A left \in StoredRecords(table) \ RecordsOf(returned) :
        \A kept \in RecordsOf(returned) : kept.detected_at >= left.detected_at

RecentAnswerIsRight(l) ==
    /\ l.returned = << >> \/ Len(l.returned) <= l.limit
    /\ Len(l.returned) < l.limit => RecordsOf(l.returned) = StoredRecords(l.table)
    /\ ListsStoredRecords(l.returned, l.table)
    /\ HoldsTheLatest(l.returned, l.table)
    /\ NonIncreasing(l.returned)

VinAnswerIsRight(l) ==
    /\ ListsStoredRecords(l.returned, l.table)
    /\ RecordsOf(l.returned) = {record \in StoredRecords(l.table) : record.vin = l.vin}
    /\ NonIncreasing(l.returned)

\* C18: after any sequence of saves, list_recent_faults(limit) returns at most
\* limit records (an answer that is not empty has no more than limit of them),
\* they are the stored records with the latest detected_at, newest first;
\* list_faults_for_vin(vin) returns exactly the stored records of that vin,
\* newest first.
C18_ListQueries ==
    listing # None =>
        /\ listing[1].query = "recent" => RecentAnswerIsRight(listing[1])
        /\ listing[1].query = "vin" => VinAnswerIsRight(listing[1])

\* the same statement for the limits that are not negative; this one holds
C18_ListQueriesNonNegativeLimit ==
    (listing # None /\ listing[1].limit >= 0) =>
        /\ listing[1].query = "recent" => RecentAnswerIsRight(listing[1])
        /\ listing[1].query = "vin" => VinAnswerIsRight(listing[1])

\* a limit below the number of stored records cuts the answer, and two stored
\* records carry the same detected_at
C18_TruncatedReached ==
    /\ listing # None
    /\ listing[1].query = "recent"
    /\ listing[1].limit >= 1
    /\ Len(listing[1].returned) = listing[1].limit
    /\ Len(listing[1].table) > listing[1].limit
    /\ \E i, j \in 1..Len(listing[1].table) :
        i # j /\ listing[1].table[i].detected_at = listing[1].table[j].detected_at


(***************************************************************************)
(* Stage 4 text that is not the JSON object its task asks for              *)
(***************************************************************************)
\* the text is the JSON object of the booking task's expected_output
\* (crew_orchestrator.py:226-242)
ParsesAsBookingJson(text) == text = "{\"preferred_date\": ...}"

MalformedBooking(r) == Len(outputs[r]) >= 4 /\ ~ParsesAsBookingJson(outputs[r][4])

\* the run goes on to stage 5 and to persistence as it does for any stage-4
\* text: it can only fail by stage 5 raising, and once stage 5 has returned
\* and run_pipeline is resumed the record is built and save has been called once
ProceedsAsWellFormed(r) ==
    /\ pc[r] \in {"Stage5", "Failed", "Resuming", "Persisting", "Saved", "Done"}
    /\ pc[r] = "Failed" => FailedAtStage(r) = NumStages
    /\ (Len(outputs[r]) = NumStages /\ pc[r] # "Resuming") => (fault[r] # None /\ save_calls[r] = 1)
    /\ pc[r] = "Done" => (result[r] # None /\ response[r][1].status_code = 200)

\* C19: when stage 4 returns text that does not parse as the required JSON
\* object the run does not fail, it proceeds to stage 5 and persistence as for
\* well-formed output, and the raw stage-4 text appears unchanged in the
\* aggregate result.
C19_MalformedBookingIsKept ==
    \A r \in Runs :
        MalformedBooking(r) =>
            /\ ProceedsAsWellFormed(r)
            /\ pc[r] = "Done" =>
                \E i \in 1..Len(TextsIn(result[r][1].crew_output)) :
                    TextsIn(result[r][1].crew_output)[i] = outputs[r][4]

\* the part of C19 that holds: malformed stage-4 text never fails the run
C19_MalformedBookingIsSoft ==
    \A r \in Runs : MalformedBooking(r) => ProceedsAsWellFormed(r)

\* a run whose stage 4 returned malformed text has completed and saved
C19_MalformedRunCompleted ==
    \E r \in Runs : MalformedBooking(r) /\ pc[r] = "Done" /\ HasRowOf(r)


(***************************************************************************)
(* Order of the five stage invocations within one run                      *)
(***************************************************************************)
StageOrder ==
    <<"summary", "diagnosis", "customer_message", "booking_instruction", "oem_insight">>

\* the stages that have returned in run r are the first ones of StageOrder,
\* each having returned once, in that order
ReturnedInOrder(r) ==
    /\ Len(outputs[r]) <= Len(StageOrder)
    /\ \A k \in 1..Len(outputs[r]) :
        /\ StageNames[k] = StageOrder[k]
        /\ outputs[r][k] \in StageTexts(k)

\* the stage run r is in was started with exactly the stages before it returned
StartedAfterPrevious(r) ==
    IsStage(pc[r]) => Len(outputs[r]) = StageOf(pc[r]) - 1

\* a FaultRecord exists, or save was called, only with all five stages returned
PersistsAfterLastStage(r) ==
    (fault[r] # None \/ save_calls[r] > 0 \/ save_raised[r] \/ HasRowOf(r)) =>
        /\ Len(outputs[r]) = Len(StageOrder)
        /\ outputs[r][Len(StageOrder)] \in StageTexts(Len(StageOrder))

\* C20: within one run the five stage invocations are strictly sequential in
\* the order summary, diagnosis, customer message, booking instruction, OEM
\* insight: stage k+1 is never started before stage k has returned, and the
\* FaultRecord is built and save is called only after stage 5 has returned,
\* in the step that resumes run_pipeline and never again.
C20_StrictlySequential ==
    /\ [](\A r \in Runs :
            ReturnedInOrder(r) /\ StartedAfterPrevious(r) /\ PersistsAfterLastStage(r))
    /\ [][\A r \in Runs :
            /\ outputs'[r] # outputs[r] =>
                /\ IsStage(pc[r])
                /\ outputs'[r] = Append(outputs[r], outputs'[r][Len(outputs[r]) + 1])
                /\ outputs'[r][Len(outputs'[r])] \in StageTexts(StageOf(pc[r]))
            /\ (fault'[r] # fault[r] \/ save_calls'[r] # save_calls[r]) =>
                /\ pc[r] = "Resuming"
                /\ Len(outputs[r]) = Len(StageOrder)
                /\ fault[r] = None
                /\ save_calls'[r] = 1]_vars

\* C20's case: one run has had its fifth stage return and its record built
\* and save called, while another is still in its third stage with no record
C20_Witness ==
    \E r, q \in Runs :
        /\ pc[r] = "Persisting" /\ Len(outputs[r]) = NumStages
        /\ fault[r] # None /\ save_calls[r] = 1
        /\ pc[q] = "Stage3" /\ Len(outputs[q]) = 2 /\ fault[q] = None /\ save_calls[q] = 0


(***************************************************************************)
(* What a stage is given when the crew invokes it.  The Crew is built      *)
(* with process=Process.sequential and no task names a context of its own  *)
(* (crew_orchestrator.py:183-259, 302-312), so the crew hands each task    *)
(* its description together with the raw outputs of the tasks run before.  *)
(***************************************************************************)
\* the outputs of the tasks run before task k
PreviousOutputs(task_outputs, k) == SubSeq(task_outputs, 1, k - 1)

StageInput(ctx, k, task_outputs) ==
    [task |-> BuildTasks(ctx)[k],
     context |-> PreviousOutputs(task_outputs, k)]

\* stage k of run r has been invoked
StageStarted(r, k) ==
    /\ context[r] # None
    /\ pc[r] # "Built"
    /\ Len(outputs[r]) >= k - 1

\* C21: the input given to each stage is a function of the pipeline context
\* and the stage's fixed definition only: two runs with the same context get
\* the same input at every stage, whatever their earlier stages returned.
C21_StageInputsIndependent ==
    \A r, q \in Runs : \A k \in 1..NumStages :
        (StageStarted(r, k) /\ StageStarted(q, k) /\ context[r] = context[q]) =>
            StageInput(context[r][1], k, outputs[r]) = StageInput(context[q][1], k, outputs[q])

\* the part of C21 that holds: the task definitions built by _build_tasks,
\* description and agent, are the same for the same context
C21_TaskDefinitionsIndependent ==
    \A r, q \in Runs : \A k \in 1..NumStages :
        (StageStarted(r, k) /\ StageStarted(q, k) /\ context[r] = context[q]) =>
            StageInput(context[r][1], k, outputs[r]).task = StageInput(context[q][1], k, outputs[q]).task

\* two runs with the same context have both started stage 5 after their
\* stage 4 returned different texts
C21_DifferentEarlierOutputsReached ==
    \E r, q \in Runs :
        /\ r # q
        /\ StageStarted(r, NumStages) /\ StageStarted(q, NumStages)
        /\ context[r] = context[q]
        /\ outputs[r][4] # outputs[q][4]


(***************************************************************************)
(* The pipeline context over the life of a run                             *)
(***************************************************************************)
\* the context as run_pipeline builds it on entry (crew_orchestrator.py:278-291)
StartContext(r) == BuildContext(payload[r][1], anomaly[r][1])

\* the context embedded in the instruction of stage k of run r
EmbeddedContext(r, k) == BuildTasks(context[r][1])[k].description[3]

ContextKept(r) ==
    context[r] # None =>
        /\ payload[r] # None /\ anomaly[r] # None
        /\ context[r][1] = StartContext(r)
        /\ \A k \in 1..NumStages :
            StageStarted(r, k) => EmbeddedContext(r, k) = context_str(StartContext(r))
        /\ fault[r] # None => fault[r][1].raw_payload = StartContext(r)
        /\ \A i \in 1..Len(rows) :
            (fault[r] # None /\ rows[i].id = fault[r][1].id) =>
                rows[i].raw_payload = StartContext(r)
        /\ result[r] # None => result[r][1].context = StartContext(r)
        /\ (response[r] # None /\ response[r][1].status_code = 200) =>
                response[r][1].body.summary = StartContext(r)

\* C22: the pipeline context is built once, before stage 1, and no stage and
\* no save changes it: every stage's instruction embeds the same context
\* value, and the raw_payload of the FaultRecord and the context returned to
\* the caller both equal the context built at the start of the run.
C22_ContextBuiltOnce ==
    /\ [](\A r \in Runs : ContextKept(r))
    /\ [][\A r \in Runs :
            context'[r] # context[r] =>
                /\ context[r] = None
                /\ pc[r] = "Idle" /\ pc'[r] = "Built"
                /\ outputs'[r] = << >>]_vars

\* C22's case: a run went through its five stages and its save, and another
\* through its five stages and a save that raised
C22_Witness ==
    \E r, q \in Runs :
        /\ pc[r] = "Done" /\ HasRowOf(r) /\ Len(outputs[r]) = NumStages
        /\ result[r][1].context = context[r][1]
        /\ pc[q] = "Done" /\ save_raised[q] /\ Len(outputs[q]) = NumStages
        /\ response[q][1].body.summary = context[q][1]


(***************************************************************************)
(* The fields of the FaultRecord a run builds                              *)
(***************************************************************************)
\* 200.0 km, in tenths
FallbackFailureKm == 2000

\* the value of an optional field, or the fallback when the field is absent
AbsentOr(opt, fallback) == IF opt = None THEN fallback ELSE opt[1]

ContextKeys ==
    {"vin", "timestamp", "coolant_temp_c", "coolant_pressure_bar", "engine_rpm",
     "vibration_level", "battery_voltage", "odometer_km", "anomaly_reason",
     "predicted_failure_km", "component", "severity"}

RecordFieldsFrom(record, sample, classification, ctx) ==
    /\ record.vin = sample.vin
    /\ record.raw_payload = ctx
    /\ DOMAIN record.raw_payload = ContextKeys
    /\ record.predicted_failure_km = AbsentOr(classification.predicted_failure_km, FallbackFailureKm)
    /\ record.component = AbsentOr(classification.component, "unknown")
    /\ record.severity = AbsentOr(classification.severity, "medium")

\* C23: the FaultRecord built by a pipeline run has the sample's vin, the full
\* context as raw_payload, and predicted_failure_km, component and severity
\* equal to the classification's values, with 200.0, "unknown" and "medium"
\* standing in only for a field the classification does not have.
C23_RecordFields ==
    \A r \in Runs :
        fault[r] # None =>
            /\ payload[r] # None /\ anomaly[r] # None /\ context[r] # None
            /\ RecordFieldsFrom(fault[r][1], payload[r][1], anomaly[r][1], context[r][1])

\* C23's case: both runs have built their records, one for a critical
\* coolant fault and one for a medium alternator fault
C23_Witness ==
    \E r, q \in Runs :
        /\ fault[r] # None /\ fault[r][1].severity = "critical"
        /\ fault[r][1].component = "coolant_pump"
        /\ fault[q] # None /\ fault[q][1].severity = "medium"
        /\ fault[q][1].predicted_failure_km = 50000

\* the same on every sample of the classifier's grid that is an anomaly: the
\* classification then has all three fields, none of them 0 or empty, so the
\* record carries the classification's own values
C23_OnEveryGridSample ==
    (verdict # None /\ verdict[1].is_anomaly) =>
        /\ verdict[1].predicted_failure_km # None /\ verdict[1].predicted_failure_km[1] >= FallbackFailureKm
        /\ verdict[1].component # None /\ verdict[1].component[1] # ""
        /\ verdict[1].severity # None /\ verdict[1].severity[1] # ""
        /\ RecordFieldsFrom(BuildFault(1, 0, probe[1], verdict[1], BuildContext(probe[1], verdict[1])),
                            probe[1], verdict[1], BuildContext(probe[1], verdict[1]))


(***************************************************************************)
(* Saves and returned fault ids                                            *)
(***************************************************************************)
\* run r has answered the caller with a fault id
Returned(r) == pc[r] = "Done" /\ response[r] # None /\ response[r][1].status_code = 200

ReturnedId(r) == response[r][1].body.fault_id

RowsWithId(id) == {i \in 1..Len(rows) : rows[i].id = id}

\* a run calls save once, when its five stages have completed and
\* run_pipeline is resumed, with the record whose id it then returns
SavesOnce(r) ==
    /\ save_calls[r] <= 1
    /\ save_calls[r] = 1 <=> (Len(outputs[r]) = NumStages /\ pc[r] # "Resuming")
    /\ save_calls[r] = 1 => fault[r] # None
    /\ Returned(r) =>
        /\ save_calls[r] = 1
        /\ ReturnedId(r) = fault[r][1].id
        /\ result[r][1].fault_id = fault[r][1].id
        /\ ~save_raised[r] => Cardinality(RowsWithId(ReturnedId(r))) = 1
        /\ ~save_raised[r] => \A i \in RowsWithId(ReturnedId(r)) : rows[i] = fault[r][1]
        /\ save_raised[r] => RowsWithId(ReturnedId(r)) = {}

\* run r has ended, with an answer of any kind
Ended(r) == pc[r] \in {"Done", "Failed", "NoAnomaly", "Rejected"}

\* the runs that have returned the id
ReturnedBy(id) == {r \in Runs : Returned(r) /\ ReturnedId(r) = id}

\* stored ids are distinct, each is the id of the record of exactly one run,
\* which has called save and, once it has answered, has returned that id; no
\* other run returns it, and when every run has ended each stored id has been
\* returned by exactly one run.  Between the commit and the answer of its run
\* a stored id is not yet returned.
StoredIdsAreReturnedOnce ==
    /\ \A i, j \in 1..Len(rows) : i # j => rows[i].id # rows[j].id
    /\ \A i \in 1..Len(rows) :
        /\ Cardinality({r \in Runs : fault[r] # None /\ fault[r][1].id = rows[i].id}) = 1
        /\ \A r \in Runs :
            (fault[r] # None /\ fault[r][1].id = rows[i].id) =>
                /\ save_calls[r] = 1 /\ ~save_raised[r]
                /\ pc[r] \in {"Saved", "Done"}
                /\ ReturnedBy(rows[i].id) = IF pc[r] = "Done" THEN {r} ELSE {}
    /\ (\A r \in Runs : Ended(r)) =>
        \A i \in 1..Len(rows) : Cardinality(ReturnedBy(rows[i].id)) = 1

\* C24: each run that completes its five stages calls save exactly once, with
\* a record whose id is the fault_id it returns; so every stored record's id
\* was returned by exactly one run, no two stored records share an id, and a
\* run whose save succeeded has exactly one stored record with its fault_id.
C24_OneSavePerRun ==
    /\ [](\A r \in Runs : SavesOnce(r))
    /\ []StoredIdsAreReturnedOnce
    /\ [][\A r \in Runs :
            /\ save_calls'[r] # save_calls[r] => save_calls'[r] = save_calls[r] + 1
            /\ Len(rows') # Len(rows) => Len(rows') = Len(rows) + 1]_vars

\* C24's case: two concurrent runs have both saved and returned, and the
\* table holds their two records, stored in the order opposite to that in
\* which their ids were taken
C24_Witness ==
    \E r, q \in Runs :
        /\ r # q
        /\ \A p \in Runs : Ended(p)
        /\ Returned(r) /\ ~save_raised[r]
        /\ Returned(q) /\ ~save_raised[q]
        /\ Len(rows) = 2
        /\ rows[1].id > rows[2].id
        /\ ReturnedId(r) # ReturnedId(q)

\* a record is in the table while its run has not yet answered
C24_StoredBeforeAnswered ==
    \E r \in Runs : pc[r] = "Saved" /\ HasRowOf(r) /\ response[r] = None


(***************************************************************************)
(* Python floats (IEEE 754 doubles). A measurement or distance N of this   *)
(* module is a whole number of tenths and stands for the double nearest    *)
(* N/10, which is what parsing the JSON number gives. estimate_failure_km  *)
(* adds a whole number of km to such a double, and for every odometer      *)
(* reading up to 200000.0 km the double sum is again the double nearest    *)
(* the decimal sum, so the sum is kept in tenths. The difference of two    *)
(* such doubles need not be one: it is written                             *)
(* [tenths |-> R, ulps |-> k], the double k representable values above     *)
(* (below, when k < 0) the double nearest R/10. So 199.99999999999997 is   *)
(* [tenths |-> 2000, ulps |-> -1].                                         *)
(***************************************************************************)
\* explicit mantissa bits of a double
MantissaBits == 52

\* binary exponents of the distances 0.1 km .. 134217727.9 km
BinadeExps == -4..26

\* N/10 >= 2^e
AtLeastPow2(N, e) == IF e >= 0 THEN N >= 10 * 2^e ELSE N * 2^(-e) >= 10

\* the e with 2^e <= N/10 < 2^(e+1), for N >= 1
BinadeExp(N) == CHOOSE e \in BinadeExps : AtLeastPow2(N, e) /\ ~AtLeastPow2(N, e + 1)

\* the unit in the last place of the double nearest N/10 is 2^UlpExp(N)
UlpExp(N) == BinadeExp(N) - MantissaBits

\* 2^k mod 10 and 2^k mod 20, for k >= 2
Pow2Mod10(k) == <<6, 2, 4, 8>>[(k % 4) + 1]

Pow2Mod20(k) == <<16, 12, 4, 8>>[(k % 4) + 1]

\* what N/10 leaves beyond the last mantissa bit, in tenths of an ulp:
\* (N * 2^-UlpExp(N)) mod 10. It is even, so never the tie 5.
Residue(N) == ((N % 10) * Pow2Mod10(-UlpExp(N))) % 10

\* (the double nearest N/10) - N/10, in tenths of an ulp
RoundingError(N) == IF Residue(N) < 5 THEN -Residue(N) ELSE 10 - Residue(N)

\* the last mantissa bit of the double nearest N/10
MantissaParity(N) ==
    LET r == Residue(N)
        q == ((((N % 20) * Pow2Mod20(-UlpExp(N))) % 20) - r) \div 10
    IN  (q + IF r > 5 THEN 1 ELSE 0) % 2

\* N/10 is a power of two: the doubles just below it lie twice as close
IsPowerOfTwo(N) == N = 5 \/ \E e \in 0..26 : N = 10 * 2^e

\* t / 2^s rounded to the nearest integer, a tie to the one that makes the
\* mantissa even; `parity` is the last bit of the mantissa rounded from
RoundHalfEven(t, s, parity) ==
    LET d == 2^s
        q == t \div d
        rest == t - q * d
    IN  IF 2 * rest < d THEN q
        ELSE IF 2 * rest > d THEN q + 1
        ELSE IF (parity + q) % 2 = 0 THEN q ELSE q + 1

\* float(P/10) - float(O/10) for P > O > 0: the exact difference lies t units
\* of 2^g from the double nearest (P - O)/10, and is rounded to a double
FloatSubPositive(P, O) ==
    LET R == P - O
        g == IF UlpExp(O) < UlpExp(R) THEN UlpExp(O) ELSE UlpExp(R)
        t == (RoundingError(P) * 2^(UlpExp(P) - g)
              - RoundingError(O) * 2^(UlpExp(O) - g)
              - RoundingError(R) * 2^(UlpExp(R) - g)) \div 10
        s == UlpExp(R) - g
    IN  [tenths |-> R,
         ulps |-> IF t < 0 /\ IsPowerOfTwo(R)
                  THEN (IF s = 0 THEN 2 * t ELSE RoundHalfEven(t, s - 1, 0))
                  ELSE RoundHalfEven(t, s, MantissaParity(R))]

\* float(P/10) - float(O/10), for P >= 0 and O >= 0 (main.py:199,
\* api_client.py:79)
FloatSub(P, O) ==
    IF P = O \/ P = 0 \/ O = 0 THEN [tenths |-> P - O, ulps |-> 0]
    ELSE IF P > O THEN FloatSubPositive(P, O)
    ELSE [tenths |-> P - O, ulps |-> -FloatSubPositive(O, P).ulps]

\* x >= N/10 and x > 0.0 on a difference x
FloatAtLeast(x, N) == x.tenths > N \/ (x.tenths = N /\ x.ulps >= 0)

FloatPositive(x) == x.tenths > 0

(***************************************************************************)
(* A stored record as its consumers read it                                *)
(***************************************************************************)
\* the smallest increment of estimate_failure_km, 200.0 km, in tenths
MinRemainingKm == 2000

\* dict.get(k) on an entry that holds a value or None
GetOptional(d, k) == IF k \in DOMAIN d THEN d[k] ELSE None

\* the row oem_chat_endpoint builds from a fault (main.py:184-210): component,
\* severity and predicted distance are read from raw_payload first
OemChatRow(f) ==
    LET raw == f.raw_payload
        component == IF "component" \in DOMAIN raw THEN raw.component ELSE Some(f.component)
        severity == IF "severity" \in DOMAIN raw THEN raw.severity ELSE Some(f.severity)
        odometer == Get(raw, "odometer_km")
        predicted_km == IF "predicted_failure_km" \in DOMAIN raw
                        THEN raw.predicted_failure_km ELSE Some(f.predicted_failure_km)
    IN  [vin |-> f.vin,
         component |-> component,
         severity |-> severity,
         remaining_km |-> IF odometer # None /\ predicted_km # None
                          THEN Some(FloatSub(predicted_km[1], odometer[1])) ELSE None]

\* the row normalize_faults builds from one fault (api_client.py:64-98): the
\* predicted distance is read from raw_payload first, component and severity
\* from the top-level fields first
NormalizedFault(f) ==
    LET raw == f.raw_payload
        odometer == Get(raw, "odometer_km")
        rawPredicted == GetOptional(raw, "predicted_failure_km")
        predicted == IF rawPredicted = None \/ rawPredicted[1] = 0
                     THEN Some(f.predicted_failure_km) ELSE rawPredicted
    IN  [id |-> f.id,
         vin |-> f.vin,
         detected_at |-> f.detected_at,
         component |-> IF f.component # "" THEN Some(f.component) ELSE GetOptional(raw, "component"),
         severity |-> IF f.severity # "" THEN Some(f.severity) ELSE GetOptional(raw, "severity"),
         predicted_failure_km |-> predicted,
         odometer_km |-> odometer,
         remaining_km |-> IF odometer # None /\ predicted # None
                          THEN Some(FloatSub(predicted[1], odometer[1])) ELSE None,
         anomaly_reason |-> GetOptional(raw, "anomaly_reason"),
         coolant_temp_c |-> Get(raw, "coolant_temp_c"),
         coolant_pressure_bar |-> Get(raw, "coolant_pressure_bar"),
         engine_rpm |-> Get(raw, "engine_rpm"),
         vibration_level |-> Get(raw, "vibration_level"),
         battery_voltage |-> Get(raw, "battery_voltage")]

\* normalize_faults (api_client.py:59-101): the frames it may return, one row
\* per fault, sorted by detected_at descending (sort_values leaves the order
\* of rows with equal detected_at open); no faults give the empty frame
normalize_faults(faults) ==
    IF faults = << >> THEN {<< >>}
    ELSE OrderByDetectedAtDesc([i \in 1..Len(faults) |-> NormalizedFault(faults[i])])

\* the top-level fields of a record equal the entries of its raw_payload
FieldsAgreeWithPayload(f) ==
    /\ f.raw_payload.vin = f.vin
    /\ f.raw_payload.component = Some(f.component)
    /\ f.raw_payload.severity = Some(f.severity)
    /\ f.raw_payload.predicted_failure_km = Some(f.predicted_failure_km)

\* the stored predicted distance less the stored odometer reading
RemainingKm(f) == FloatSub(f.predicted_failure_km, f.raw_payload.odometer_km)

\* the top-level fields equal the entries of raw_payload, and the predicted
\* distance lies at least 200 km beyond the odometer reading
RecordAgreesWithPayload(f) ==
    /\ FieldsAgreeWithPayload(f)
    /\ FloatAtLeast(RemainingKm(f), MinRemainingKm)

\* both consumers show the fault of the top-level fields and the same,
\* positive remaining distance
ConsumersSeeTheSameFault(f) ==
    LET chat == OemChatRow(f)
        frame == NormalizedFault(f)
    IN  /\ chat.vin = f.vin
        /\ chat.component = Some(f.component)
        /\ chat.severity = Some(f.severity)
        /\ frame.component = chat.component
        /\ frame.severity = chat.severity
        /\ frame.predicted_failure_km = Some(f.predicted_failure_km)
        /\ chat.remaining_km # None
        /\ frame.remaining_km = chat.remaining_km
        /\ FloatPositive(chat.remaining_km[1])

\* the records a run has built and the stored ones as the list queries return them
ProducedRecords ==
    {fault[r][1] : r \in {q \in Runs : fault[q] # None}} \cup {to_model(rows[i]) : i \in 1..Len(rows)}

\* C25: every FaultRecord a run produces, and every stored one as the list
\* queries return it, has vin, component, severity and predicted_failure_km
\* equal to the entries of its raw_payload, and predicted_failure_km at least
\* 200 km beyond raw_payload's odometer_km; a consumer reading the top-level
\* fields or the payload sees the same fault and a positive remaining distance.
C25_RecordMatchesPayload ==
    \A f \in ProducedRecords : RecordAgreesWithPayload(f) /\ ConsumersSeeTheSameFault(f)

\* what does hold of every such record: the fields agree, the consumers see
\* the same fault and the same positive remaining distance, and that distance
\* is 200 km or more once rounded to a tenth of a km
C25_RecordMatchesPayloadUpToRounding ==
    \A f \in ProducedRecords :
        /\ FieldsAgreeWithPayload(f)
        /\ ConsumersSeeTheSameFault(f)
        /\ RemainingKm(f).tenths >= MinRemainingKm

\* the case that breaks C25: a stored critical record at odometer 56.4 km,
\* predicted 256.4 km, for which both consumers compute 199.99999999999997 km
C25_BelowMinimumReached ==
    /\ Len(rows) >= 1
    /\ \E i \in 1..Len(rows) :
        /\ rows[i].severity = "critical"
        /\ rows[i].raw_payload.odometer_km = 564
        /\ rows[i].predicted_failure_km = 2564
        /\ OemChatRow(to_model(rows[i])).remaining_km = Some([tenths |-> MinRemainingKm, ulps |-> -1])
    /\ \E frame \in normalize_faults(ToModels(rows)) :
        \E i \in 1..Len(frame) : frame[i].remaining_km = Some([tenths |-> MinRemainingKm, ulps |-> -1])

====
